---- MODULE Spec2Model ----
(***************************************************************************)
(* The node coordinator (BotNetCoordinator, src/src/asi/cognitive/         *)
(* botnet.ts), the multiplex router (MultiplexRouter,                      *)
(* src/src/asi/multiplex/router.ts), the memory surface (MemorySurface)    *)
(* and the session manager (SessionManager, src/src/asi/session/           *)
(* manager.ts) as state machines.                                          *)
(*                                                                         *)
(* Strings are sequences of one-character strings, so that                 *)
(* String.prototype.includes, split(':') and template concatenation are    *)
(* computed and not assumed.  Time is Date.now() in milliseconds; it       *)
(* advances only to the instant at which the next timer is due (a          *)
(* discrete-event clock).  Timer callbacks are macrotasks: they run only   *)
(* when no continuation of an async function (a microtask) is pending,     *)
(* while calls of the embedding program may come between two               *)
(* continuations.                                                          *)
(*                                                                         *)
(* op and emitted are history variables: the operation the last step       *)
(* performed and the events that step emitted, in order.                   *)
(***************************************************************************)
EXTENDS Integers, Sequences, FiniteSets, TLC

VARIABLES now, nodes, tasks, heartbeatTimers, intervals, nextTimer, timeouts,
          assigning,
          organizations, channels, messageQueue, deliveries, microtasks, turns,
          fragments, indexByPlatform, indexByConversation, indexByParent,
          returned, subscribed,
          sessions, syncTimers, syncs, nextSync,
          op, emitted

coordinatorVars == <<now, nodes, tasks, heartbeatTimers, intervals, nextTimer,
                     timeouts, assigning>>

routerVars == <<organizations, channels, messageQueue, deliveries, microtasks, turns>>

(* The MemorySurface fields, the value the last query returned, and        *)
(* whether the event handlers of an ASISystem are subscribed               *)
memoryVars == <<fragments, indexByPlatform, indexByConversation, indexByParent,
                returned, subscribed>>

(* The SessionManager fields, the interval timers of the runtime that      *)
(* setupSync has started and not cleared, and the next timer handle        *)
sessionVars == <<sessions, syncTimers, syncs, nextSync>>

vars == <<coordinatorVars, routerVars, memoryVars, sessionVars, op, emitted>>

----------------------------------------------------------------------------
(* Program constants *)

heartbeatInterval == 30000

completionDelay == 100

syncInterval == 15000

(* Lifetime of a handoff token *)
tokenLifetime == 3600000

(* Bounds of the model *)

MaxPeriods == 2

MaxOffsets == 1

MaxTimers == 2

MaxTimeouts == 2

MaxInFlight == 2

MaxDrains == 2
(* Calls of broadcast whose loop has not ended *)
MaxBroadcasts == 1

MaxTime == MaxPeriods * heartbeatInterval + MaxOffsets * completionDelay

(* The instants the clock may reach: k*heartbeatInterval + j*completionDelay *)
InHorizon(t) ==
  /\ t <= MaxTime
  /\ (t % heartbeatInterval) <= MaxOffsets * completionDelay

----------------------------------------------------------------------------
(* Strings *)

Range(s) == {s[i] : i \in 1..Len(s)}

Includes(s, sub) ==
  \E i \in 0..(Len(s) - Len(sub)) : SubSeq(s, i + 1, i + Len(sub)) = sub

NodeIds == {<<"n", "1">>, <<"n", "1", "0">>}

(* The organization each node of the model belongs to *)
OrgOf(nodeId) == <<"o", "1">>

Composite(orgId, nodeId) == orgId \o <<":">> \o nodeId

GhostTarget == <<"o", "9", ":", "g", "h">>

TaskIds == {"t1"}

(* Targets: none, one that no node matches, one that names only n1, one    *)
(* that names n10 (and so contains "n1" and the organization of both), and *)
(* two targets                                                             *)
TargetLists ==
  { <<>>,
    <<GhostTarget>>,
    <<Composite(<<"o", "2">>, <<"n", "1">>)>>,
    <<Composite(<<"o", "1">>, <<"n", "1", "0">>)>>,
    <<Composite(<<"o", "1">>, <<"n", "1">>), Composite(<<"o", "1">>, <<"n", "1", "0">>)>> }

NodeStatuses == {"online", "offline", "busy"}

RegisterStatuses == {"online", "offline"}

NoTime == -1

NoTimer == 0

----------------------------------------------------------------------------
(* The node map (a Map keeps insertion order; set() on an existing key     *)
(* keeps the key's position)                                               *)

NodeIndex(nodeId) ==
  IF \E i \in 1..Len(nodes) : nodes[i].nodeId = nodeId
    THEN CHOOSE i \in 1..Len(nodes) : nodes[i].nodeId = nodeId
    ELSE 0

HasNode(nodeId) == NodeIndex(nodeId) # 0

GetNode(nodeId) == nodes[NodeIndex(nodeId)]

SetNode(ns, node) ==
  IF \E i \in 1..Len(ns) : ns[i].nodeId = node.nodeId
    THEN [i \in 1..Len(ns) |-> IF ns[i].nodeId = node.nodeId THEN node ELSE ns[i]]
    ELSE Append(ns, node)

RECURSIVE DeleteNode(_, _)
(* Mutant of DeleteNode: the node stays in the map *)
DeleteNode_Keeps(ns, nodeId) == ns

DeleteNode(ns, nodeId) ==
  IF ns = <<>> THEN <<>>
  ELSE IF Head(ns).nodeId = nodeId THEN DeleteNode(Tail(ns), nodeId)
  ELSE <<Head(ns)>> \o DeleteNode(Tail(ns), nodeId)

SetStatus(ns, nodeId, status) ==
  [i \in 1..Len(ns) |->
     IF ns[i].nodeId = nodeId THEN [ns[i] EXCEPT !.status = status] ELSE ns[i]]

SetLastHeartbeat(ns, nodeId, t) ==
  [i \in 1..Len(ns) |->
     IF ns[i].nodeId = nodeId THEN [ns[i] EXCEPT !.lastHeartbeat = t] ELSE ns[i]]

HasTask(taskId) == taskId \in DOMAIN tasks

(* The field assigned is history: task:assigned has been emitted for the   *)
(* task object recorded under the taskId                                   *)
NoTask == [status |-> "none", completedAt |-> NoTime, assigned |-> FALSE]

TaskOf(taskId) == IF HasTask(taskId) THEN tasks[taskId] ELSE NoTask

SetTask(ts, taskId, task) ==
  [k \in (DOMAIN ts) \cup {taskId} |-> IF k = taskId THEN task ELSE ts[k]]

Min(a, b) == IF a <= b THEN a ELSE b

----------------------------------------------------------------------------
(* MemorySurface *)

MaxFragments == 3

MaxStamp == 2
(* Sync periods the clock may reach, and interval timers setupSync may start *)
MaxSyncPeriods == 2

MaxSyncs == 4

FragmentIds == {<<"mem", i>> : i \in 1..MaxFragments}

ConversationIds == {"c1", "c2"}

(* The fragments given to store: every id under every conversation and     *)
(* every timestamp                                                         *)
Fragments ==
  [id : FragmentIds, timestamp : 1..MaxStamp, platformId : {"test"},
   conversationId : ConversationIds, recursiveDepth : {0},
   parentReferences : {<<>>}, content : {<<>>}]

(* An index maps a key to a Set of fragment ids; a Set keeps the order in  *)
(* which its elements were first added                                     *)
AddToIndex(index, key, id) ==
  IF key \in DOMAIN index
    THEN IF id \in Range(index[key])
           THEN index
           ELSE [index EXCEPT ![key] = Append(@, id)]
    ELSE [k \in (DOMAIN index) \cup {key} |-> IF k = key THEN <<id>> ELSE index[k]]

RECURSIVE AddParents(_, _, _)
AddParents(index, parentReferences, id) ==
  IF parentReferences = <<>> THEN index
  ELSE AddParents(AddToIndex(index, Head(parentReferences), id),
                  Tail(parentReferences), id)

(* The fields of the MemorySurface as one value *)
Memory ==
  [fragments |-> fragments, indexByPlatform |-> indexByPlatform,
   indexByConversation |-> indexByConversation, indexByParent |-> indexByParent]

EmptyMemory ==
  [fragments |-> <<>>, indexByPlatform |-> <<>>,
   indexByConversation |-> <<>>, indexByParent |-> <<>>]

(* store(fragment) *)
Stored(mem, fragment) ==
  [fragments |->
     [id \in (DOMAIN mem.fragments) \cup {fragment.id} |->
        IF id = fragment.id THEN fragment ELSE mem.fragments[id]],
   indexByPlatform |->
     AddToIndex(mem.indexByPlatform, fragment.platformId, fragment.id),
   indexByConversation |->
     AddToIndex(mem.indexByConversation, fragment.conversationId, fragment.id),
   indexByParent |->
     AddParents(mem.indexByParent, fragment.parentReferences, fragment.id)]

SetMemory(mem) ==
  /\ fragments' = mem.fragments
  /\ indexByPlatform' = mem.indexByPlatform
  /\ indexByConversation' = mem.indexByConversation
  /\ indexByParent' = mem.indexByParent

store(fragment) ==
  /\ SetMemory(Stored(Memory, fragment))
  /\ returned' = <<>>
  /\ op' = <<"store", fragment.id>>
  /\ emitted' = <<>>
  /\ UNCHANGED <<coordinatorVars, routerVars, sessionVars, subscribed>>

(* Array.prototype.sort with (a, b) => a.timestamp - b.timestamp: a stable *)
(* sort, each element placed after those whose timestamp is not greater    *)
InsertByTimestamp_First(sorted, fragment) == <<fragment>> \o sorted

InsertByTimestamp(sorted, fragment) ==
  LET k == Cardinality({i \in 1..Len(sorted) :
                          sorted[i].timestamp <= fragment.timestamp})
  IN  SubSeq(sorted, 1, k) \o <<fragment>> \o SubSeq(sorted, k + 1, Len(sorted))

RECURSIVE SortByTimestamp(_)
SortByTimestamp(fs) ==
  IF fs = <<>> THEN <<>>
  ELSE InsertByTimestamp(SortByTimestamp(SubSeq(fs, 1, Len(fs) - 1)), fs[Len(fs)])

(* Array.from(ids).map(id => fragments.get(id)).filter(f => f !== undefined) *)
RECURSIVE Defined(_, _)
Defined(mem, ids) ==
  IF ids = <<>> THEN <<>>
  ELSE IF Head(ids) \in DOMAIN mem.fragments
         THEN <<mem.fragments[Head(ids)]>> \o Defined(mem, Tail(ids))
         ELSE Defined(mem, Tail(ids))

QueryByConversation(mem, conversationId) ==
  IF conversationId \notin DOMAIN mem.indexByConversation
    THEN <<>>
    ELSE SortByTimestamp(Defined(mem, mem.indexByConversation[conversationId]))

queryByConversation(conversationId) ==
  /\ returned' = QueryByConversation(Memory, conversationId)
  /\ op' = <<"queryByConversation", conversationId>>
  /\ emitted' = <<>>
  /\ UNCHANGED <<coordinatorVars, routerVars, sessionVars>>
  /\ UNCHANGED <<fragments, indexByPlatform, indexByConversation, indexByParent,
                 subscribed>>

clear ==
  /\ SetMemory(EmptyMemory)
  /\ returned' = <<>>
  /\ op' = <<"clear">>
  /\ emitted' = <<>>
  /\ UNCHANGED <<coordinatorVars, routerVars, sessionVars, subscribed>>

MemoryNext ==
  \/ \E fragment \in Fragments : store(fragment)
  \/ \E conversationId \in ConversationIds : queryByConversation(conversationId)
  \/ clear

----------------------------------------------------------------------------
(* ASISystem: the handlers that setupEventHandlers subscribes *)

(* Task ids are strings in the coordinator and sequences in the router;    *)
(* the handlers take them as sequences                                     *)
TaskFragmentId(taskId) == <<"task">> \o taskId

(* content is JSON.stringify of the payload of the event: the task and the *)
(* node, or the task and the channel                                       *)
handleTaskCompleted(mem, taskId, nodeId, time) ==
  Stored(mem, [id |-> TaskFragmentId(taskId), timestamp |-> time,
               platformId |-> "botnet", conversationId |-> taskId,
               recursiveDepth |-> 0, parentReferences |-> <<>>,
               content |-> <<taskId, nodeId>>])

handleMessageDelivered(mem, taskId, channelId, time) ==
  Stored(mem, [id |-> <<"delivery">> \o taskId \o <<time>>, timestamp |-> time,
               platformId |-> "multiplex", conversationId |-> taskId,
               recursiveDepth |-> 0,
               parentReferences |-> <<TaskFragmentId(taskId)>>,
               content |-> <<taskId, channelId>>])

(* emit calls the listeners of an event before it returns *)
RECURSIVE Dispatch(_, _, _)
Dispatch(mem, events, time) ==
  IF events = <<>> THEN mem
  ELSE LET event == Head(events)
           handled == IF event[1] = "task:completed"
                        THEN handleTaskCompleted(mem, <<event[2]>>, event[3], time)
                      ELSE IF event[1] = "task:delivered"
                        THEN handleMessageDelivered(mem, event[2], event[3], time)
                      ELSE mem
       IN  Dispatch(handled, Tail(events), time)

(* The effect on the memory surface of the events an operation emits *)
Notify ==
  /\ IF subscribed
       THEN SetMemory(Dispatch(Memory, emitted', now))
       ELSE UNCHANGED <<fragments, indexByPlatform, indexByConversation,
                        indexByParent>>
  /\ UNCHANGED <<returned, subscribed>>
  /\ UNCHANGED sessionVars

----------------------------------------------------------------------------
(* SessionManager *)

SessionIds == {<<"s", "1">>, <<"s", "2">>}

Platforms == {"web", "mobile"}

NoMetadata == [lastHandoff |-> NoTime, targetPlatform |-> "none"]

MaxSyncTime == MaxSyncPeriods * syncInterval

(* The SessionState objects passed to createSession *)
SessionStates ==
  [sessionId : SessionIds, platform : Platforms, lastSync : {0, now},
   metadata : {NoMetadata}]

(* Map.set and Map.delete *)
Put(map, key, value) ==
  [k \in (DOMAIN map) \cup {key} |-> IF k = key THEN value ELSE map[k]]

Without(map, keys) == [k \in (DOMAIN map) \ keys |-> map[k]]

(* { ...session, ...updates } *)
Merged(session, updates) ==
  [f \in DOMAIN session |-> IF f \in DOMAIN updates THEN updates[f] ELSE session[f]]

(* Mutant of setupSync: the timer the session had is not cleared *)
setupSync_KeepsOld(sessionId) ==
  /\ syncs' = Put(syncs, nextSync, [sessionId |-> sessionId, due |-> now + syncInterval])
  /\ syncTimers' = Put(syncTimers, sessionId, nextSync)
  /\ nextSync' = nextSync + 1

setupSync(sessionId) ==
  LET cleared == IF sessionId \in DOMAIN syncTimers
                   THEN Without(syncs, {syncTimers[sessionId]})
                   ELSE syncs
  IN
  /\ syncs' = Put(cleared, nextSync, [sessionId |-> sessionId, due |-> now + syncInterval])
  /\ syncTimers' = Put(syncTimers, sessionId, nextSync)
  /\ nextSync' = nextSync + 1

createSession(session) ==
  /\ nextSync <= MaxSyncs
  /\ sessions' = Put(sessions, session.sessionId, session)
  /\ setupSync(session.sessionId)
  /\ op' = <<"createSession", session.sessionId>>
  /\ emitted' = <<>>
  /\ UNCHANGED <<coordinatorVars, routerVars, memoryVars>>

(* The session map after updateSession(sessionId, updates) *)
Updated(ss, sessionId, updates) ==
  IF sessionId \in DOMAIN ss
    THEN Put(ss, sessionId, Merged(ss[sessionId], updates))
    ELSE ss

(* The values of updates: a platform, or a lastSync *)
SessionUpdates ==
  {[platform |-> platform] : platform \in Platforms} \cup {[lastSync |-> 0]}

updateSession(sessionId, updates) ==
  /\ sessions' = Updated(sessions, sessionId, updates)
  /\ op' = <<"updateSession", sessionId>>
  /\ emitted' = <<>>
  /\ UNCHANGED <<syncTimers, syncs, nextSync>>
  /\ UNCHANGED <<coordinatorVars, routerVars, memoryVars>>

(* The setInterval callback of setupSync: syncSession(sessionId) *)
SyncFire(timer) ==
  /\ timer \in DOMAIN syncs
  /\ syncs[timer].due <= now
  /\ syncs' = [syncs EXCEPT ![timer].due = @ + syncInterval]
  /\ sessions' = Updated(sessions, syncs[timer].sessionId, [lastSync |-> now])
  /\ op' = <<"syncSession", syncs[timer].sessionId>>
  /\ emitted' = <<>>
  /\ UNCHANGED <<syncTimers, nextSync>>
  /\ UNCHANGED <<coordinatorVars, routerVars, memoryVars>>

(* The payload of a handoff token, `${sessionId}:${expirationTime}`, as the *)
(* pair that split(':') gives for a sessionId without a colon               *)
HandoffToken(sessionId, time) == <<sessionId, time + tokenLifetime>>

(* The tokens presented to resumeSession: expired, or issued at time 0 *)
HandoffTokens ==
  {<<sessionId, expirationTime>> :
     sessionId \in SessionIds, expirationTime \in {0, tokenLifetime}}

handoffSession(sessionId, targetPlatform) ==
  /\ IF sessionId \in DOMAIN sessions
       THEN /\ sessions' =
                 Updated(sessions, sessionId,
                         [metadata |-> Merged(sessions[sessionId].metadata,
                                              [lastHandoff |-> now,
                                               targetPlatform |-> targetPlatform])])
            /\ op' = <<"handoffSession", sessionId, HandoffToken(sessionId, now)>>
       ELSE /\ UNCHANGED sessions
            /\ op' = <<"handoffSession", sessionId, "error">>
  /\ emitted' = <<>>
  /\ UNCHANGED <<syncTimers, syncs, nextSync>>
  /\ UNCHANGED <<coordinatorVars, routerVars, memoryVars>>

resumeSession(token, platform) ==
  /\ IF now > token[2] \/ token[1] \notin DOMAIN sessions
       THEN /\ UNCHANGED sessions
            /\ op' = <<"resumeSession", token[1], "error">>
       ELSE /\ sessions' = Updated(sessions, token[1], [platform |-> platform])
            /\ op' = <<"resumeSession", token[1], "ok">>
  /\ emitted' = <<>>
  /\ UNCHANGED <<syncTimers, syncs, nextSync>>
  /\ UNCHANGED <<coordinatorVars, routerVars, memoryVars>>

(* terminateSession for each of the sessionIds *)
Terminated(sessionIds) ==
  LET timed == sessionIds \cap DOMAIN syncTimers IN
  /\ syncs' = Without(syncs, {syncTimers[sessionId] : sessionId \in timed})
  /\ syncTimers' = Without(syncTimers, timed)
  /\ sessions' = Without(sessions, sessionIds)

terminateSession(sessionId) ==
  /\ Terminated({sessionId})
  /\ op' = <<"terminateSession", sessionId>>
  /\ emitted' = <<>>
  /\ UNCHANGED nextSync
  /\ UNCHANGED <<coordinatorVars, routerVars, memoryVars>>

cleanup(maxAge) ==
  /\ Terminated({sessionId \in DOMAIN sessions : now - sessions[sessionId].lastSync > maxAge})
  /\ op' = <<"cleanup", maxAge>>
  /\ emitted' = <<>>
  /\ UNCHANGED nextSync
  /\ UNCHANGED <<coordinatorVars, routerVars, memoryVars>>

SessionStatsOf(ss, timers) ==
  [totalSessions |-> Cardinality(DOMAIN ss), activeSyncs |-> Cardinality(DOMAIN timers)]

SyncDues == {syncs[timer].due : timer \in DOMAIN syncs}

(* The clock advances to the instant the next sync timer is due *)
SessionTick ==
  /\ SyncDues # {}
  /\ \A due \in SyncDues : due > now
  /\ \E due \in SyncDues :
       /\ \A other \in SyncDues : due <= other
       /\ due <= MaxSyncTime
       /\ now' = due
  /\ op' = <<"tick">>
  /\ emitted' = <<>>
  /\ UNCHANGED <<nodes, tasks, heartbeatTimers, intervals, nextTimer, timeouts, assigning>>
  /\ UNCHANGED <<routerVars, memoryVars, sessionVars>>

SessionNext ==
  \/ \E session \in SessionStates : createSession(session)
  \/ \E sessionId \in SessionIds, updates \in SessionUpdates :
       updateSession(sessionId, updates)
  \/ \E sessionId \in SessionIds, targetPlatform \in Platforms :
       handoffSession(sessionId, targetPlatform)
  \/ \E token \in HandoffTokens, platform \in Platforms : resumeSession(token, platform)
  \/ \E sessionId \in SessionIds : terminateSession(sessionId)
  \/ \E maxAge \in {0, syncInterval} : cleanup(maxAge)
  \/ \E timer \in 1..MaxSyncs : SyncFire(timer)
  \/ SessionTick

----------------------------------------------------------------------------

(* BotNetCoordinator *)

Constructed ==
  /\ now = 0
  /\ nodes = <<>>
  /\ tasks = <<>>
  /\ heartbeatTimers = [n \in NodeIds |-> NoTimer]
  /\ intervals = <<>>
  /\ nextTimer = 1
  /\ timeouts = <<>>
  /\ assigning = <<>>
  /\ organizations = <<>>
  /\ channels = <<>>
  /\ messageQueue = <<>>
  /\ deliveries = <<>>
  /\ microtasks = <<>>
  /\ turns = 0
  /\ fragments = <<>>
  /\ indexByPlatform = <<>>
  /\ indexByConversation = <<>>
  /\ indexByParent = <<>>
  /\ returned = <<>>
  /\ sessions = <<>>
  /\ syncTimers = <<>>
  /\ syncs = <<>>
  /\ nextSync = 1
  /\ op = <<"init">>
  /\ emitted = <<>>

(* A BotNetCoordinator, a MultiplexRouter and a MemorySurface constructed  *)
(* on their own: no listener is subscribed                                 *)
Init == Constructed /\ subscribed = FALSE

(* The constructor of ASISystem: setupEventHandlers subscribes its         *)
(* handlers to task:completed and task:delivered                           *)
SystemInit == Constructed /\ subscribed = TRUE

MemorySpec == Init /\ [][MemoryNext]_vars

(* setInterval(() => checkHeartbeat(nodeId), heartbeatInterval), stored    *)
(* under nodeId; an earlier timer of the nodeId is overwritten in the map  *)
(* and not cleared                                                         *)
setupHeartbeat(nodeId) ==
  /\ intervals' = intervals @@
       (nextTimer :> [nodeId |-> nodeId, due |-> now + heartbeatInterval])
  /\ heartbeatTimers' = [heartbeatTimers EXCEPT ![nodeId] = nextTimer]
  /\ nextTimer' = nextTimer + 1

clearHeartbeat(nodeId) ==
  LET timer == heartbeatTimers[nodeId] IN
  IF timer # NoTimer
    THEN /\ intervals' = [k \in (DOMAIN intervals) \ {timer} |-> intervals[k]]
         /\ heartbeatTimers' = [heartbeatTimers EXCEPT ![nodeId] = NoTimer]
    ELSE UNCHANGED <<intervals, heartbeatTimers>>

registerNode(nodeId, orgId, status, lastHeartbeat) ==
  /\ nextTimer <= MaxTimers
  /\ nodes' = SetNode(nodes, [nodeId |-> nodeId, orgId |-> orgId,
                              status |-> status, lastHeartbeat |-> lastHeartbeat])
  /\ emitted' = << <<"node:registered", nodeId>> >>
  /\ setupHeartbeat(nodeId)
  /\ op' = <<"registerNode", nodeId>>
  /\ UNCHANGED <<routerVars, memoryVars, sessionVars>>
  /\ UNCHANGED <<now, tasks, timeouts, assigning>>

unregisterNode(nodeId) ==
  /\ IF HasNode(nodeId)
       THEN /\ clearHeartbeat(nodeId)
            /\ nodes' = DeleteNode(nodes, nodeId)
            /\ emitted' = << <<"node:unregistered", nodeId>> >>
            /\ UNCHANGED nextTimer
       ELSE /\ emitted' = <<>>
            /\ UNCHANGED <<nodes, intervals, heartbeatTimers, nextTimer>>
  /\ op' = <<"unregisterNode", nodeId>>
  /\ UNCHANGED <<routerVars, memoryVars, sessionVars>>
  /\ UNCHANGED <<now, tasks, timeouts, assigning>>

(* Mutants of HeartbeatExpired: the comparison not strict; the operands    *)
(* of the subtraction exchanged                                            *)
HeartbeatExpired_AtLeast(node) == now - node.lastHeartbeat >= heartbeatInterval * 2

HeartbeatExpired_Swapped(node) == node.lastHeartbeat - now > heartbeatInterval * 2

(* timeSinceLastHeartbeat > this.heartbeatInterval * 2 *)
HeartbeatExpired(node) == now - node.lastHeartbeat > heartbeatInterval * 2

checkHeartbeat(nodeId) ==
  IF HasNode(nodeId) /\ HeartbeatExpired(GetNode(nodeId))
    THEN /\ nodes' = SetStatus(nodes, nodeId, "offline")
         /\ emitted' = << <<"node:offline", nodeId>> >>
    ELSE /\ emitted' = <<>>
         /\ UNCHANGED nodes

(* One firing of a liveness timer *)
IntervalFire(timer) ==
  /\ assigning = <<>>
  /\ timer \in DOMAIN intervals
  /\ intervals[timer].due <= now
  /\ intervals' = [intervals EXCEPT ![timer].due = @ + heartbeatInterval]
  /\ checkHeartbeat(intervals[timer].nodeId)
  /\ op' = <<"checkHeartbeat", intervals[timer].nodeId>>
  /\ UNCHANGED <<routerVars, memoryVars, sessionVars>>
  /\ UNCHANGED <<now, tasks, heartbeatTimers, nextTimer, timeouts, assigning>>

(* Mutants of heartbeat: without the test for offline; without the update  *)
(* of lastHeartbeat on the offline branch                                  *)
heartbeat_AlwaysOnline(nodeId) ==
  /\ IF HasNode(nodeId)
       THEN /\ nodes' = SetStatus(SetLastHeartbeat(nodes, nodeId, now), nodeId, "online")
            /\ emitted' = IF GetNode(nodeId).status = "offline"
                            THEN << <<"node:online", nodeId>> >> ELSE <<>>
       ELSE /\ emitted' = <<>>
            /\ UNCHANGED nodes
  /\ op' = <<"heartbeat", nodeId>>
  /\ UNCHANGED <<routerVars, memoryVars, sessionVars>>
  /\ UNCHANGED <<now, tasks, heartbeatTimers, intervals, nextTimer, timeouts,
                 assigning>>

heartbeat_StaleWhenOffline(nodeId) ==
  /\ IF HasNode(nodeId)
       THEN IF GetNode(nodeId).status = "offline"
              THEN /\ nodes' = SetStatus(nodes, nodeId, "online")
                   /\ emitted' = << <<"node:online", nodeId>> >>
              ELSE /\ nodes' = SetLastHeartbeat(nodes, nodeId, now)
                   /\ emitted' = <<>>
       ELSE /\ emitted' = <<>>
            /\ UNCHANGED nodes
  /\ op' = <<"heartbeat", nodeId>>
  /\ UNCHANGED <<routerVars, memoryVars, sessionVars>>
  /\ UNCHANGED <<now, tasks, heartbeatTimers, intervals, nextTimer, timeouts,
                 assigning>>

heartbeat(nodeId) ==
  /\ IF HasNode(nodeId)
       THEN IF GetNode(nodeId).status = "offline"
              THEN /\ nodes' = SetStatus(SetLastHeartbeat(nodes, nodeId, now),
                                         nodeId, "online")
                   /\ emitted' = << <<"node:online", nodeId>> >>
              ELSE /\ nodes' = SetLastHeartbeat(nodes, nodeId, now)
                   /\ emitted' = <<>>
       ELSE /\ emitted' = <<>>
            /\ UNCHANGED nodes
  /\ op' = <<"heartbeat", nodeId>>
  /\ UNCHANGED <<routerVars, memoryVars, sessionVars>>
  /\ UNCHANGED <<now, tasks, heartbeatTimers, intervals, nextTimer, timeouts,
                 assigning>>

----------------------------------------------------------------------------
(* Task distribution *)

(* Mutant of IsCapable: without the test of the node's status *)
IsCapable_AnyStatus(node, targetNodes) ==
  \E i \in 1..Len(targetNodes) :
    Includes(targetNodes[i], node.nodeId) \/ Includes(targetNodes[i], node.orgId)

IsCapable(node, targetNodes) ==
  /\ node.status = "online"
  /\ \E i \in 1..Len(targetNodes) :
       Includes(targetNodes[i], node.nodeId) \/ Includes(targetNodes[i], node.orgId)

RECURSIVE Capable(_, _)
Capable(ns, targetNodes) ==
  IF ns = <<>> THEN <<>>
  ELSE IF IsCapable(Head(ns), targetNodes)
         THEN <<Head(ns)>> \o Capable(Tail(ns), targetNodes)
         ELSE Capable(Tail(ns), targetNodes)

findCapableNodes(targetNodes) == Capable(nodes, targetNodes)

RECURSIVE WithStatus(_, _)
WithStatus(ns, online) ==
  IF ns = <<>> THEN <<>>
  ELSE IF (Head(ns).status = "online") = online
         THEN <<Head(ns)>> \o WithStatus(Tail(ns), online)
         ELSE WithStatus(Tail(ns), online)

(* Mutant of selectNodes: one node only *)
selectNodes_One(capableNodes, targetNodes) ==
  SubSeq(capableNodes, 1, Min(Len(capableNodes), 1))

(* A stable sort that puts the online nodes first, then slice(0, n) *)
selectNodes(capableNodes, targetNodes) ==
  LET sorted == WithStatus(capableNodes, TRUE) \o WithStatus(capableNodes, FALSE)
  IN  SubSeq(sorted, 1, Min(Len(sorted), Len(targetNodes)))

(* The node objects a createTask still has to assign, with the identity of *)
(* each object: the liveness timer its registerNode call created           *)
Refs(selected) ==
  [i \in 1..Len(selected) |->
     [nodeId |-> selected[i].nodeId, ref |-> heartbeatTimers[selected[i].nodeId]]]

RECURSIVE PendingAssignments(_)
PendingAssignments(q) ==
  IF q = <<>> THEN 0 ELSE Len(Head(q).rest) + PendingAssignments(Tail(q))

(* assignTask(task, node): node is an object reference; when the record    *)
(* registered under its nodeId is no longer that object, the write to      *)
(* node.status does not reach the node map                                 *)
assignTask(taskId, target) ==
  /\ nodes' = IF HasNode(target.nodeId) /\ heartbeatTimers[target.nodeId] = target.ref
                THEN SetStatus(nodes, target.nodeId, "busy")
                ELSE nodes
  /\ timeouts' = Append(timeouts, [taskId |-> taskId, nodeId |-> target.nodeId,
                                   due |-> now + completionDelay])

createTask(taskId, targetNodes) ==
  LET capableNodes == findCapableNodes(targetNodes)
      selectedNodes == Refs(selectNodes(capableNodes, targetNodes))
  IN
  /\ op' = <<"createTask", taskId>>
  /\ UNCHANGED <<routerVars, memoryVars, sessionVars>>
  /\ UNCHANGED <<now, heartbeatTimers, intervals, nextTimer>>
  /\ IF Len(capableNodes) = 0
       THEN /\ tasks' = SetTask(tasks, taskId,
                                [status |-> "failed", completedAt |-> NoTime,
                                 assigned |-> FALSE])
            /\ emitted' = << <<"task:created", taskId>>,
                             <<"task:failed", taskId, "no_capable_nodes">> >>
            /\ UNCHANGED <<nodes, timeouts, assigning>>
       ELSE /\ InHorizon(now + completionDelay)
            /\ Len(timeouts) + PendingAssignments(assigning) + Len(selectedNodes)
                 <= MaxTimeouts
            /\ tasks' = SetTask(tasks, taskId,
                                [status |-> "pending", completedAt |-> NoTime,
                                 assigned |-> TRUE])
            /\ assignTask(taskId, Head(selectedNodes))
            /\ emitted' = << <<"task:created", taskId>>,
                             <<"task:assigned", taskId, Head(selectedNodes).nodeId>> >>
            /\ assigning' = IF Len(selectedNodes) > 1
                              THEN Append(assigning, [taskId |-> taskId,
                                                      rest |-> Tail(selectedNodes)])
                              ELSE assigning

(* The continuation of createTask after an await: the next assignment *)
AssignNext ==
  /\ assigning # <<>>
  /\ LET c == Head(assigning) IN
     /\ assignTask(c.taskId, Head(c.rest))
     /\ emitted' = << <<"task:assigned", c.taskId, Head(c.rest).nodeId>> >>
     /\ assigning' = IF Len(c.rest) > 1
                       THEN Append(Tail(assigning), [c EXCEPT !.rest = Tail(c.rest)])
                       ELSE Tail(assigning)
     /\ op' = <<"assignTask", c.taskId, Head(c.rest).nodeId>>
     /\ UNCHANGED <<routerVars, memoryVars, sessionVars>>
  /\ UNCHANGED <<now, tasks, heartbeatTimers, intervals, nextTimer>>

(* Mutant of completeTask: the node is not set back to online *)
completeTask_NodeStaysBusy(taskId, nodeId) ==
  IF HasTask(taskId) /\ HasNode(nodeId)
    THEN /\ tasks' = SetTask(tasks, taskId,
                             [status |-> "completed", completedAt |-> now,
                              assigned |-> tasks[taskId].assigned])
         /\ emitted' = << <<"task:completed", taskId, nodeId>> >>
         /\ UNCHANGED nodes
    ELSE /\ emitted' = <<>>
         /\ UNCHANGED <<tasks, nodes>>

(* Mutant of completeTask: completedAt is not written *)
completeTask_NoCompletedAt(taskId, nodeId) ==
  IF HasTask(taskId) /\ HasNode(nodeId)
    THEN /\ tasks' = SetTask(tasks, taskId,
                             [status |-> "completed",
                              completedAt |-> tasks[taskId].completedAt,
                              assigned |-> tasks[taskId].assigned])
         /\ nodes' = SetStatus(nodes, nodeId, "online")
         /\ emitted' = << <<"task:completed", taskId, nodeId>> >>
    ELSE /\ emitted' = <<>>
         /\ UNCHANGED <<tasks, nodes>>

(* Mutant of completeTask: a task that is not pending is left alone *)
completeTask_OnlyPending(taskId, nodeId) ==
  IF HasTask(taskId) /\ HasNode(nodeId) /\ tasks[taskId].status = "pending"
    THEN /\ tasks' = SetTask(tasks, taskId,
                             [status |-> "completed", completedAt |-> now,
                              assigned |-> tasks[taskId].assigned])
         /\ nodes' = SetStatus(nodes, nodeId, "online")
         /\ emitted' = << <<"task:completed", taskId, nodeId>> >>
    ELSE /\ emitted' = <<>>
         /\ UNCHANGED <<tasks, nodes>>

(* Mutant of completeTask: an offline node completes nothing *)
completeTask_SkipsOffline(taskId, nodeId) ==
  IF HasTask(taskId) /\ HasNode(nodeId) /\ GetNode(nodeId).status # "offline"
    THEN /\ tasks' = SetTask(tasks, taskId,
                             [status |-> "completed", completedAt |-> now,
                              assigned |-> tasks[taskId].assigned])
         /\ nodes' = SetStatus(nodes, nodeId, "online")
         /\ emitted' = << <<"task:completed", taskId, nodeId>> >>
    ELSE /\ emitted' = <<>>
         /\ UNCHANGED <<tasks, nodes>>

(* Mutant of completeTask: the task is completed also without its node *)
completeTask_TaskOnly(taskId, nodeId) ==
  IF HasTask(taskId)
    THEN /\ tasks' = SetTask(tasks, taskId,
                             [status |-> "completed", completedAt |-> now,
                              assigned |-> tasks[taskId].assigned])
         /\ nodes' = IF HasNode(nodeId) THEN SetStatus(nodes, nodeId, "online") ELSE nodes
         /\ emitted' = << <<"task:completed", taskId, nodeId>> >>
    ELSE /\ emitted' = <<>>
         /\ UNCHANGED <<tasks, nodes>>

completeTask(taskId, nodeId) ==
  IF HasTask(taskId) /\ HasNode(nodeId)
    THEN /\ tasks' = SetTask(tasks, taskId,
                             [status |-> "completed", completedAt |-> now,
                              assigned |-> tasks[taskId].assigned])
         /\ nodes' = SetStatus(nodes, nodeId, "online")
         /\ emitted' = << <<"task:completed", taskId, nodeId>> >>
    ELSE /\ emitted' = <<>>
         /\ UNCHANGED <<tasks, nodes>>

(* The setTimeout callback of assignTask; the callbacks have one delay and *)
(* fire in the order they were scheduled. The operation records the status *)
(* the firing found for its node                                           *)
TimeoutFire ==
  /\ assigning = <<>>
  /\ timeouts # <<>>
  /\ Head(timeouts).due <= now
  /\ completeTask(Head(timeouts).taskId, Head(timeouts).nodeId)
  /\ timeouts' = Tail(timeouts)
  /\ op' = <<"completion", Head(timeouts).taskId, Head(timeouts).nodeId,
              IF HasNode(Head(timeouts).nodeId)
                THEN GetNode(Head(timeouts).nodeId).status ELSE "absent">>
  /\ UNCHANGED routerVars
  /\ Notify
  /\ UNCHANGED <<now, heartbeatTimers, intervals, nextTimer, assigning>>

(* completeTask is public: a direct call *)
completeTaskCall(taskId, nodeId) ==
  /\ completeTask(taskId, nodeId)
  /\ op' = <<"completeTask", taskId, nodeId>>
  /\ UNCHANGED routerVars
  /\ Notify
  /\ UNCHANGED <<now, heartbeatTimers, intervals, nextTimer, timeouts, assigning>>

----------------------------------------------------------------------------
(* The clock *)

Dues == {intervals[k].due : k \in DOMAIN intervals}
          \cup {timeouts[i].due : i \in 1..Len(timeouts)}

NextDue == CHOOSE d \in Dues : \A e \in Dues : d <= e

Tick ==
  /\ assigning = <<>>
  /\ Dues # {}
  /\ NextDue > now
  /\ InHorizon(NextDue)
  /\ now' = NextDue
  /\ op' = <<"tick">>
  /\ UNCHANGED <<routerVars, memoryVars, sessionVars>>
  /\ emitted' = <<>>
  /\ UNCHANGED <<nodes, tasks, heartbeatTimers, intervals, nextTimer, timeouts,
                 assigning>>

StatsOf(ns, ts) ==
  [totalNodes |-> Len(ns),
   onlineNodes |-> Cardinality({i \in 1..Len(ns) : ns[i].status = "online"}),
   busyNodes |-> Cardinality({i \in 1..Len(ns) : ns[i].status = "busy"}),
   offlineNodes |-> Cardinality({i \in 1..Len(ns) : ns[i].status = "offline"}),
   totalTasks |-> Cardinality(DOMAIN ts),
   pendingTasks |-> Cardinality({t \in DOMAIN ts : ts[t].status = "pending"}),
   processingTasks |-> Cardinality({t \in DOMAIN ts : ts[t].status = "processing"}),
   completedTasks |-> Cardinality({t \in DOMAIN ts : ts[t].status = "completed"}),
   failedTasks |-> Cardinality({t \in DOMAIN ts : ts[t].status = "failed"})]

getStats == StatsOf(nodes, tasks)

Next ==
  \/ \E nodeId \in NodeIds, status \in RegisterStatuses, lastHeartbeat \in {0, now} :
       registerNode(nodeId, OrgOf(nodeId), status, lastHeartbeat)
  \/ \E nodeId \in NodeIds : unregisterNode(nodeId)
  \/ \E nodeId \in NodeIds : heartbeat(nodeId)
  \/ \E taskId \in TaskIds, targetNodes \in TargetLists : createTask(taskId, targetNodes)
  \/ AssignNext
  \/ \E taskId \in TaskIds, nodeId \in NodeIds : completeTaskCall(taskId, nodeId)
  \/ \E timer \in 1..MaxTimers : IntervalFire(timer)
  \/ TimeoutFire
  \/ Tick

Spec == Init /\ [][Next]_vars

(* Timer callbacks that are due and continuations that are pending do run; *)
(* the clock advances                                                      *)
Fairness ==
  /\ WF_vars(Tick)
  /\ WF_vars(TimeoutFire)
  /\ WF_vars(AssignNext)
  /\ \A timer \in 1..MaxTimers : WF_vars(IntervalFire(timer))

FairSpec == Spec /\ Fairness

----------------------------------------------------------------------------
(* MultiplexRouter *)

RouterOrgIds == {<<"o", "1">>, <<"o", "2">>}

(* The channels the model creates, pauses and resumes *)
ChannelTriples ==
  { <<<<"o", "1">>, <<"o", "2">>, "agent2agent">>,
    <<<<"o", "1">>, <<"o", "3">>, "agent2agent">>,
    <<<<"o", "1">>, <<"o", "2">>, "org2org">> }

(* `${sourceOrgId}->${targetOrgId}:${channelType}` *)
ChannelId(sourceOrgId, targetOrgId, channelType) ==
  sourceOrgId \o <<"->">> \o targetOrgId \o <<":">> \o <<channelType>>

ChannelIds == {ChannelId(c[1], c[2], c[3]) : c \in ChannelTriples}

(* The tasks the model routes: from o1 to o2, and from o1 to o3 *)
RouterTasks ==
  { [taskId |-> <<"a">>, sourceNode |-> <<"o", "1", ":", "n", "1">>,
     targetNodes |-> << <<"o", "2", ":", "n", "2">> >>],
    [taskId |-> <<"b">>, sourceNode |-> <<"o", "1", ":", "n", "1">>,
     targetNodes |-> << <<"o", "3", ":", "n", "3">> >>] }

(* s.split(':')[0] *)
SplitHead(s) ==
  IF \E i \in 1..Len(s) : s[i] = ":"
    THEN SubSeq(s, 1, (CHOOSE i \in 1..Len(s) :
                         s[i] = ":" /\ \A j \in 1..(i - 1) : s[j] # ":") - 1)
    ELSE s

HasOrganization(orgId) ==
  \E i \in 1..Len(organizations) : organizations[i].orgId = orgId

(* Mutant of registerOrganization: every call adds a record *)
registerOrganization_Appends(org) ==
  /\ organizations' = Append(organizations, org)
  /\ emitted' = << <<"org:registered", org.orgId>> >>
  /\ op' = <<"registerOrganization", org.orgId>>
  /\ UNCHANGED <<channels, messageQueue, deliveries, microtasks, turns>>
  /\ UNCHANGED <<coordinatorVars, memoryVars, sessionVars>>

registerOrganization(org) ==
  /\ organizations' =
       IF HasOrganization(org.orgId)
         THEN [i \in 1..Len(organizations) |->
                 IF organizations[i].orgId = org.orgId THEN org ELSE organizations[i]]
         ELSE Append(organizations, org)
  /\ emitted' = << <<"org:registered", org.orgId>> >>
  /\ op' = <<"registerOrganization", org.orgId>>
  /\ UNCHANGED <<channels, messageQueue, deliveries, microtasks, turns>>
  /\ UNCHANGED <<coordinatorVars, memoryVars, sessionVars>>

SetChannel(chs, channelId, channel) ==
  [k \in (DOMAIN chs) \cup {channelId} |-> IF k = channelId THEN channel ELSE chs[k]]

(* Mutant of createChannel: an existing channel keeps its status *)
createChannel_KeepsStatus(sourceOrgId, targetOrgId, channelType) ==
  LET channelId == ChannelId(sourceOrgId, targetOrgId, channelType) IN
  /\ channels' = SetChannel(channels, channelId,
                            [sourceOrgId |-> sourceOrgId, targetOrgId |-> targetOrgId,
                             channelType |-> channelType,
                             status |-> IF channelId \in DOMAIN channels
                                          THEN channels[channelId].status
                                          ELSE "active"])
  /\ emitted' = << <<"channel:created", channelId>> >>
  /\ op' = <<"createChannel", channelId,
             IF channelId \in DOMAIN channels THEN channels[channelId].status
             ELSE "absent">>
  /\ UNCHANGED <<organizations, messageQueue, deliveries, microtasks, turns>>
  /\ UNCHANGED <<coordinatorVars, memoryVars, sessionVars>>

(* Mutant of createChannel: the call also routes the task at the head of   *)
(* the queue                                                               *)
createChannel_Routes(sourceOrgId, targetOrgId, channelType) ==
  LET channelId == ChannelId(sourceOrgId, targetOrgId, channelType)
      chs == SetChannel(channels, channelId,
                        [sourceOrgId |-> sourceOrgId, targetOrgId |-> targetOrgId,
                         channelType |-> channelType, status |-> "active"])
  IN
  /\ channels' = chs
  /\ emitted' = << <<"channel:created", channelId>> >>
  /\ op' = <<"createChannel", channelId,
             IF channelId \in DOMAIN channels THEN channels[channelId].status
             ELSE "absent">>
  /\ messageQueue' = IF messageQueue = <<>> THEN messageQueue ELSE Tail(messageQueue)
  /\ deliveries' = IF messageQueue = <<>> THEN deliveries
                   ELSE Append(deliveries, [task |-> Head(messageQueue),
                                            channel |-> channelId])
  /\ UNCHANGED <<organizations, microtasks, turns>>
  /\ UNCHANGED <<coordinatorVars, memoryVars, sessionVars>>

(* createChannel; op records the identifier returned and the status the    *)
(* call found                                                              *)
createChannel(sourceOrgId, targetOrgId, channelType) ==
  LET channelId == ChannelId(sourceOrgId, targetOrgId, channelType) IN
  /\ channels' = SetChannel(channels, channelId,
                            [sourceOrgId |-> sourceOrgId, targetOrgId |-> targetOrgId,
                             channelType |-> channelType, status |-> "active"])
  /\ emitted' = << <<"channel:created", channelId>> >>
  /\ op' = <<"createChannel", channelId,
             IF channelId \in DOMAIN channels THEN channels[channelId].status
             ELSE "absent">>
  /\ UNCHANGED <<organizations, messageQueue, deliveries, microtasks, turns>>
  /\ UNCHANGED <<coordinatorVars, memoryVars, sessionVars>>

(* The identifiers of the active agent2agent channels from the task's      *)
(* source organization to its targets' organizations, in target order      *)
RECURSIVE ActiveChannels(_, _, _)
ActiveChannels(chs, sourceOrgId, targetOrgIds) ==
  IF targetOrgIds = <<>> THEN <<>>
  ELSE LET channelId == ChannelId(sourceOrgId, Head(targetOrgIds), "agent2agent")
           rest == ActiveChannels(chs, sourceOrgId, Tail(targetOrgIds))
       IN  IF channelId \in DOMAIN chs /\ chs[channelId].status = "active"
             THEN <<channelId>> \o rest
             ELSE rest

(* Mutant of findChannels: without the test of the channel's status *)
RECURSIVE ExistingChannels(_, _, _)
ExistingChannels(chs, sourceOrgId, targetOrgIds) ==
  IF targetOrgIds = <<>> THEN <<>>
  ELSE LET channelId == ChannelId(sourceOrgId, Head(targetOrgIds), "agent2agent")
           rest == ExistingChannels(chs, sourceOrgId, Tail(targetOrgIds))
       IN  IF channelId \in DOMAIN chs THEN <<channelId>> \o rest ELSE rest

findChannels_AnyStatus(chs, task) ==
  ExistingChannels(chs, SplitHead(task.sourceNode),
                   [i \in 1..Len(task.targetNodes) |-> SplitHead(task.targetNodes[i])])

(* Mutant of findChannels: probes the org2org channel *)
findChannels_Org2Org(chs, task) ==
  LET channelId == ChannelId(SplitHead(task.sourceNode),
                             SplitHead(task.targetNodes[1]), "org2org")
  IN  IF channelId \in DOMAIN chs /\ chs[channelId].status = "active"
        THEN <<channelId>> ELSE <<>>

(* Mutant of findChannels: the channels in the reverse of the target order *)
findChannels_Reversed(chs, task) ==
  ActiveChannels(chs, SplitHead(task.sourceNode),
                 [i \in 1..Len(task.targetNodes) |->
                    SplitHead(task.targetNodes[Len(task.targetNodes) + 1 - i])])

findChannels(chs, task) ==
  ActiveChannels(chs, SplitHead(task.sourceNode),
                 [i \in 1..Len(task.targetNodes) |-> SplitHead(task.targetNodes[i])])

(* Mutant of route: without the test of the source organization *)
route_AnySource(chs, task, st) ==
  LET found == findChannels(chs, task) IN
  IF Len(found) = 0
    THEN [st EXCEPT !.messageQueue = Append(@, task),
                    !.events = Append(@, <<"task:queued", task.taskId>>)]
    ELSE [st EXCEPT !.deliveries = Append(@, [task |-> task, channel |-> found[1]]),
                    !.events = Append(@, <<"task:routing", task.taskId, found[1]>>)]

(* route(task) on the router state st = [messageQueue, deliveries, events, *)
(* thrown] with the channel map chs: the state after the call              *)
route(chs, task, st) ==
  IF ~HasOrganization(SplitHead(task.sourceNode))
    THEN [st EXCEPT !.thrown = TRUE]
    ELSE LET found == findChannels(chs, task) IN
         IF Len(found) = 0
           THEN [st EXCEPT !.messageQueue = Append(@, task),
                           !.events = Append(@, <<"task:queued", task.taskId>>)]
           ELSE [st EXCEPT !.deliveries = Append(@, [task |-> task, channel |-> found[1]]),
                           !.events = Append(@, <<"task:routing", task.taskId, found[1]>>)]

RouterState(events) ==
  [messageQueue |-> messageQueue, deliveries |-> deliveries, events |-> events,
   thrown |-> FALSE]

(* A call of route by the embedding program *)
routeCall(task) ==
  LET st == route(channels, task, RouterState(<<>>)) IN
  /\ Len(messageQueue) + Len(deliveries) < MaxInFlight
  /\ messageQueue' = st.messageQueue
  /\ deliveries' = st.deliveries
  /\ emitted' = st.events
  /\ op' = <<"route", task.taskId, IF st.thrown THEN "error" ELSE "ok">>
  /\ UNCHANGED <<organizations, channels, microtasks, turns>>
  /\ UNCHANGED <<coordinatorVars, memoryVars, sessionVars>>

(* The setTimeout callback of route; the callbacks have one delay and fire *)
(* in the order they were scheduled, when no continuation is pending       *)
Deliver ==
  /\ microtasks = <<>>
  /\ deliveries # <<>>
  /\ emitted' = << <<"task:delivered", Head(deliveries).task.taskId,
                     Head(deliveries).channel>> >>
  /\ deliveries' = Tail(deliveries)
  /\ op' = <<"delivery", Head(deliveries).task.taskId>>
  /\ UNCHANGED <<organizations, channels, messageQueue, microtasks, turns>>
  /\ UNCHANGED coordinatorVars
  /\ Notify

(* Mutant of pauseChannel: the status is left as it was *)
pauseChannel_KeepsStatus(channelId) ==
  /\ emitted' = IF channelId \in DOMAIN channels
                  THEN << <<"channel:paused", channelId>> >> ELSE <<>>
  /\ op' = <<"pauseChannel", channelId>>
  /\ UNCHANGED <<organizations, channels, messageQueue, deliveries, microtasks, turns>>
  /\ UNCHANGED <<coordinatorVars, memoryVars, sessionVars>>

pauseChannel(channelId) ==
  /\ IF channelId \in DOMAIN channels
       THEN /\ channels' = [channels EXCEPT ![channelId].status = "paused"]
            /\ emitted' = << <<"channel:paused", channelId>> >>
       ELSE /\ emitted' = <<>>
            /\ UNCHANGED channels
  /\ op' = <<"pauseChannel", channelId>>
  /\ UNCHANGED <<organizations, messageQueue, deliveries, microtasks, turns>>
  /\ UNCHANGED <<coordinatorVars, memoryVars, sessionVars>>

(* Mutant of processQueueIteration: takes the task at the tail *)
processQueueIteration_Last(chs, st) ==
  route(chs, st.messageQueue[Len(st.messageQueue)],
        [st EXCEPT !.messageQueue = SubSeq(@, 1, Len(@) - 1)])

(* Mutant of processQueueIteration: routes the head without removing it *)
processQueueIteration_KeepsHead(chs, st) ==
  route(chs, Head(st.messageQueue), st)

(* One iteration of the loop of processQueue: shift, route, await *)
processQueueIteration(chs, st) ==
  route(chs, Head(st.messageQueue), [st EXCEPT !.messageQueue = Tail(@)])

(* A pending continuation of processQueue; continuations are tagged tuples *)
Drain(d) == <<"processQueue", d>>

FreeDrains ==
  {d \in 1..MaxDrains : \A i \in 1..Len(microtasks) : microtasks[i] # Drain(d)}

(* resumeChannel; processQueue runs up to its first await within the call *)
resumeChannel(channelId) ==
  /\ op' = <<"resumeChannel", channelId>>
  /\ UNCHANGED organizations
  /\ UNCHANGED <<coordinatorVars, memoryVars, sessionVars>>
  /\ IF channelId \in DOMAIN channels
       THEN LET chs == [channels EXCEPT ![channelId].status = "active"]
                resumed == RouterState(<< <<"channel:resumed", channelId>> >>)
            IN
            /\ channels' = chs
            /\ IF messageQueue = <<>>
                 THEN /\ emitted' = resumed.events
                      /\ UNCHANGED <<messageQueue, deliveries, microtasks, turns>>
                 ELSE LET st == processQueueIteration(chs, resumed) IN
                      /\ FreeDrains # {}
                      /\ messageQueue' = st.messageQueue
                      /\ deliveries' = st.deliveries
                      /\ emitted' = st.events
                      /\ microtasks' =
                           IF st.thrown THEN microtasks
                           ELSE Append(microtasks, Drain(CHOOSE d \in FreeDrains :
                                                           \A e \in FreeDrains : d <= e))
                      /\ turns' = 1 - turns
       ELSE /\ emitted' = <<>>
            /\ UNCHANGED <<channels, messageQueue, deliveries, microtasks, turns>>

(* The continuation of processQueue after an await: the loop test and, if  *)
(* the queue is not empty, the next iteration                              *)
DrainStep ==
  /\ microtasks # <<>>
  /\ Head(microtasks)[1] = "processQueue"
  /\ op' = Head(microtasks)
  /\ UNCHANGED <<organizations, channels>>
  /\ UNCHANGED <<coordinatorVars, memoryVars, sessionVars>>
  /\ IF messageQueue = <<>>
       THEN /\ microtasks' = Tail(microtasks)
            /\ emitted' = <<>>
            /\ UNCHANGED <<messageQueue, deliveries, turns>>
       ELSE LET st == processQueueIteration(channels, RouterState(<<>>)) IN
            /\ messageQueue' = st.messageQueue
            /\ deliveries' = st.deliveries
            /\ emitted' = st.events
            /\ microtasks' = IF st.thrown THEN Tail(microtasks)
                             ELSE Append(Tail(microtasks), Head(microtasks))
            /\ turns' = 1 - turns

(* broadcast *)

BroadcastOrgIds == {<<"o", "1">>, <<"o", "2">>, <<"o", "3">>}

BroadcastTasks ==
  { [taskId |-> <<"x">>, sourceNode |-> <<"o", "1", ":", "n", "1">>,
     targetNodes |-> << <<"o", "2", ":", "n", "2">> >>] }

(* Mutant of broadcastTask: the copy keeps the targets of the task *)
broadcastTask_SameTargets(task, orgId) ==
  [task EXCEPT !.taskId = task.taskId \o <<"-">> \o orgId]

(* { ...task, targetNodes: [`${orgId}:broadcast`], taskId: `${task.taskId}-${orgId}` } *)
broadcastTask(task, orgId) ==
  [task EXCEPT !.targetNodes = << orgId \o <<":", "broadcast">> >>,
               !.taskId = task.taskId \o <<"-">> \o orgId]

(* Mutant of NextOther: does not skip the source organization *)
NextOther_AnyOrg(orgs, sourceOrgId, pos) ==
  IF pos < Len(orgs) THEN pos + 1 ELSE 0

(* The next entry after position pos of the iteration over the map of      *)
(* organizations whose orgId is not the source's; 0 when there is none     *)
NextOther(orgs, sourceOrgId, pos) ==
  IF \E i \in (pos + 1)..Len(orgs) : orgs[i].orgId # sourceOrgId
    THEN CHOOSE i \in (pos + 1)..Len(orgs) :
           /\ orgs[i].orgId # sourceOrgId
           /\ \A j \in (pos + 1)..(i - 1) : orgs[j].orgId = sourceOrgId
    ELSE 0

(* The loop of broadcast from position pos up to its next await; visited   *)
(* records the organizations the call has routed to so far, pending the    *)
(* other continuations                                                     *)
broadcastLoop(name, task, pos, visited, pending) ==
  LET i == NextOther(organizations, SplitHead(task.sourceNode), pos) IN
  IF i = 0
    THEN /\ microtasks' = pending
         /\ emitted' = <<>>
         /\ op' = <<name, task.taskId, visited, "done">>
         /\ UNCHANGED <<messageQueue, deliveries>>
    ELSE LET orgId == organizations[i].orgId
             st == route(channels, broadcastTask(task, orgId), RouterState(<<>>))
         IN
         /\ messageQueue' = st.messageQueue
         /\ deliveries' = st.deliveries
         /\ emitted' = st.events
         /\ IF st.thrown
              THEN /\ microtasks' = pending
                   /\ op' = <<name, task.taskId, visited, "error">>
              ELSE /\ microtasks' = Append(pending, <<"broadcast", task, i,
                                                     Append(visited, orgId)>>)
                   /\ op' = <<name, task.taskId, Append(visited, orgId), "await">>

BroadcastsPending ==
  Cardinality({i \in 1..Len(microtasks) : microtasks[i][1] = "broadcast"})

(* A call of broadcast by the embedding program *)
broadcast(task) ==
  /\ BroadcastsPending < MaxBroadcasts
  /\ Len(messageQueue) + Len(deliveries) + Cardinality(BroadcastOrgIds) - 1 <= MaxInFlight
  /\ broadcastLoop("broadcast", task, 0, <<>>, microtasks)
  /\ UNCHANGED <<organizations, channels, turns>>
  /\ UNCHANGED <<coordinatorVars, memoryVars, sessionVars>>

(* The continuation of broadcast after await route *)
BroadcastStep ==
  /\ microtasks # <<>>
  /\ Head(microtasks)[1] = "broadcast"
  /\ broadcastLoop("broadcast:next", Head(microtasks)[2], Head(microtasks)[3],
                   Head(microtasks)[4], Tail(microtasks))
  /\ UNCHANGED <<organizations, channels, turns>>
  /\ UNCHANGED <<coordinatorVars, memoryVars, sessionVars>>

BroadcastChannelIds ==
  {ChannelId(<<"o", "1">>, orgId, "agent2agent") : orgId \in {<<"o", "2">>, <<"o", "3">>}}

BroadcastNext ==
  \/ \E orgId \in BroadcastOrgIds : registerOrganization([orgId |-> orgId, name |-> "org"])
  \/ \E orgId \in {<<"o", "2">>, <<"o", "3">>} :
       createChannel(<<"o", "1">>, orgId, "agent2agent")
  \/ \E channelId \in BroadcastChannelIds : pauseChannel(channelId)
  \/ \E channelId \in BroadcastChannelIds : resumeChannel(channelId)
  \/ \E task \in BroadcastTasks : broadcast(task)
  \/ BroadcastStep
  \/ DrainStep
  \/ Deliver

BroadcastSpec == Init /\ [][BroadcastNext]_vars

RouterStatsOf(orgs, chs, queue) ==
  [organizations |-> Len(orgs),
   channels |-> Cardinality(DOMAIN chs),
   activeChannels |-> Cardinality({k \in DOMAIN chs : chs[k].status = "active"}),
   queuedTasks |-> Len(queue)]

getRouterStats == RouterStatsOf(organizations, channels, messageQueue)

RouterNext ==
  \/ \E orgId \in RouterOrgIds : registerOrganization([orgId |-> orgId, name |-> "org"])
  \/ \E c \in ChannelTriples : createChannel(c[1], c[2], c[3])
  \/ \E task \in RouterTasks : routeCall(task)
  \/ \E channelId \in ChannelIds : pauseChannel(channelId)
  \/ \E channelId \in ChannelIds : resumeChannel(channelId)
  \/ DrainStep
  \/ Deliver

RouterSpec == Init /\ [][RouterNext]_vars

(* A pending continuation runs; a due delivery callback fires once the     *)
(* continuations have run                                                  *)
RouterFairness == WF_vars(DrainStep) /\ SF_vars(Deliver)

FairRouterSpec == RouterSpec /\ RouterFairness

----------------------------------------------------------------------------
(* Observations used by the properties *)

StatusIn(ns, nodeId) ==
  IF \E i \in 1..Len(ns) : ns[i].nodeId = nodeId
    THEN (CHOOSE n \in Range(ns) : n.nodeId = nodeId).status
    ELSE "absent"

LastHeartbeatIn(ns, nodeId) ==
  (CHOOSE n \in Range(ns) : n.nodeId = nodeId).lastHeartbeat

StatusInTasks(ts, taskId) ==
  IF taskId \in DOMAIN ts THEN ts[taskId].status ELSE "none"

Emitted(event) == \E i \in 1..Len(emitted) : emitted[i] = event

Count(events, event) == Cardinality({i \in 1..Len(events) : events[i] = event})

PendingCompletion(taskId, nodeId) ==
  \E i \in 1..Len(timeouts) :
    timeouts[i].taskId = taskId /\ timeouts[i].nodeId = nodeId

----------------------------------------------------------------------------
(* C1 *)

StatusChanged(nodeId) ==
  /\ StatusIn(nodes, nodeId) # "absent"
  /\ StatusIn(nodes', nodeId) # "absent"
  /\ StatusIn(nodes', nodeId) # StatusIn(nodes, nodeId)

Edge(nodeId) == <<StatusIn(nodes, nodeId), StatusIn(nodes', nodeId)>>

(* C1, as stated (its last sentence): a liveness check never changes a    *)
(* node whose status is busy to offline, however long the node has gone    *)
(* without a heartbeat                                                     *)
C1_BusyNeverOffline ==
  [][\A nodeId \in NodeIds :
       (op' = <<"checkHeartbeat", nodeId>> /\ StatusIn(nodes, nodeId) = "busy") =>
         StatusIn(nodes', nodeId) = "busy"]_vars

(* C1, amended: every change of the status of a node that stays registered *)
(* (registerNode steps apart) is online->offline or busy->offline by a     *)
(* liveness check of that node, offline->online by a heartbeat of that     *)
(* node, online->busy by an assignment of that node, or busy->online or    *)
(* offline->online by a completion (scheduled or called) naming that node  *)
C1_StatusEdges ==
  [][\A nodeId \in NodeIds :
       (StatusChanged(nodeId) /\ op'[1] # "registerNode") =>
         \/ /\ op' = <<"checkHeartbeat", nodeId>>
            /\ Edge(nodeId) \in {<<"online", "offline">>, <<"busy", "offline">>}
         \/ /\ op' = <<"heartbeat", nodeId>>
            /\ Edge(nodeId) = <<"offline", "online">>
         \/ /\ op'[1] \in {"createTask", "assignTask"}
            /\ Edge(nodeId) = <<"online", "busy">>
         \/ /\ op'[1] \in {"completion", "completeTask"}
            /\ op'[3] = nodeId
            /\ Edge(nodeId) \in {<<"busy", "online">>, <<"offline", "online">>}]_vars

(* A liveness check has just taken a node with an unfired completion (a    *)
(* busy node) to offline                                                   *)
C1_Witness ==
  \E nodeId \in NodeIds :
    /\ op = <<"checkHeartbeat", nodeId>>
    /\ Emitted(<<"node:offline", nodeId>>)
    /\ StatusIn(nodes, nodeId) = "offline"
    /\ \E taskId \in TaskIds : PendingCompletion(taskId, nodeId)

----------------------------------------------------------------------------
(* C2 *)

(* C2, as stated: once the completion scheduled for an assignment has      *)
(* fired, the task is completed with completedAt set and the assigned node *)
(* is online, whatever was interleaved before the firing                   *)
C2_CompletionAlwaysCompletes ==
  op[1] = "completion" =>
    /\ StatusInTasks(tasks, op[2]) = "completed"
    /\ tasks[op[2]].completedAt # NoTime
    /\ StatusIn(nodes, op[3]) = "online"

(* C2, amended: every scheduled completion eventually fires, whatever is   *)
(* interleaved; a firing that finds its node still registered leaves the   *)
(* task completed with completedAt set to the time of the firing and that  *)
(* node online                                                             *)
C2_CompletesWhileRegistered ==
  /\ [](/\ op[1] = "completion"
        /\ StatusIn(nodes, op[3]) # "absent"
        => /\ StatusInTasks(tasks, op[2]) = "completed"
           /\ tasks[op[2]].completedAt = now
           /\ StatusIn(nodes, op[3]) = "online")
  /\ \A taskId \in TaskIds, nodeId \in NodeIds :
       PendingCompletion(taskId, nodeId) ~>
         (op[1] = "completion" /\ op[2] = taskId /\ op[3] = nodeId)

(* A scheduled completion has fired on a registered node after time passed *)
C2_Witness ==
  /\ op[1] = "completion"
  /\ StatusIn(nodes, op[3]) = "online"
  /\ StatusInTasks(tasks, op[2]) = "completed"
  /\ tasks[op[2]].completedAt = now
  /\ now > 0

----------------------------------------------------------------------------
(* C3 *)

(* C3: once the recorded status of a taskId is failed or completed it      *)
(* never changes again                                                     *)
C3_TerminalStatuses ==
  [][\A taskId \in TaskIds :
       StatusInTasks(tasks, taskId) \in {"failed", "completed"} =>
         StatusInTasks(tasks', taskId) = StatusInTasks(tasks, taskId)]_vars

----------------------------------------------------------------------------
(* C4 *)

NoOnlineMatch(targetNodes) ==
  \A i \in 1..Len(nodes) :
    nodes[i].status = "online" =>
      \A j \in 1..Len(targetNodes) :
        /\ ~Includes(targetNodes[j], nodes[i].nodeId)
        /\ ~Includes(targetNodes[j], nodes[i].orgId)

FailureEffect(taskId) ==
  /\ StatusInTasks(tasks', taskId) = "failed"
  /\ emitted' = << <<"task:created", taskId>>,
                   <<"task:failed", taskId, "no_capable_nodes">> >>
  /\ nodes' = nodes
  /\ timeouts' = timeouts
  /\ assigning' = assigning

(* C4, as stated: a createTask whose targets match no registered online    *)
(* node sets the task to failed, emits task:failed with the reason         *)
(* no_capable_nodes, increases stats().failedTasks by 1, changes no node   *)
(* and schedules no completion                                             *)
C4_FailedCountIncreases ==
  [][\A taskId \in TaskIds, targetNodes \in TargetLists :
       (createTask(taskId, targetNodes) /\ NoOnlineMatch(targetNodes)) =>
         /\ FailureEffect(taskId)
         /\ StatsOf(nodes', tasks').failedTasks = getStats.failedTasks + 1]_vars

(* C4, what the code does: as stated, except that stats().failedTasks      *)
(* counts the records of the map, so it increases by 1 unless the taskId   *)
(* was already recorded with status failed, in which case it is unchanged  *)
C4_NoCapableNodesFails ==
  [][\A taskId \in TaskIds, targetNodes \in TargetLists :
       (createTask(taskId, targetNodes) /\ NoOnlineMatch(targetNodes)) =>
         /\ FailureEffect(taskId)
         /\ StatsOf(nodes', tasks').failedTasks =
              IF StatusInTasks(tasks, taskId) = "failed"
                THEN getStats.failedTasks
                ELSE getStats.failedTasks + 1]_vars

(* A createTask has just failed while a node was registered, and the       *)
(* failed task is counted                                                  *)
C4_Witness ==
  /\ op[1] = "createTask"
  /\ Emitted(<<"task:failed", op[2], "no_capable_nodes">>)
  /\ StatusInTasks(tasks, op[2]) = "failed"
  /\ getStats.failedTasks = 1
  /\ nodes # <<>>

----------------------------------------------------------------------------
(* C5 *)

HeartbeatLate(nodeId) ==
  /\ StatusIn(nodes, nodeId) # "absent"
  /\ now - LastHeartbeatIn(nodes, nodeId) > 2 * heartbeatInterval

(* The next liveness check of the node falls within the model's horizon *)
CheckWithinHorizon(nodeId) ==
  \E timer \in DOMAIN intervals :
    intervals[timer].nodeId = nodeId /\ intervals[timer].due <= MaxTime

(* C5: a registered node whose status is online and whose last heartbeat   *)
(* is more than 2H old eventually is offline with node:offline emitted     *)
(* for it, unless it is unregistered or its heartbeat is renewed first     *)
C5_EventuallyOffline ==
  \A nodeId \in NodeIds :
    (/\ StatusIn(nodes, nodeId) = "online"
     /\ HeartbeatLate(nodeId)
     /\ CheckWithinHorizon(nodeId))
    ~> (\/ StatusIn(nodes, nodeId) = "absent"
        \/ ~HeartbeatLate(nodeId)
        \/ /\ StatusIn(nodes, nodeId) = "offline"
           /\ Emitted(<<"node:offline", nodeId>>))

(* A liveness check has just set a late node to offline *)
C5_Witness ==
  \E nodeId \in NodeIds :
    /\ op = <<"checkHeartbeat", nodeId>>
    /\ HeartbeatLate(nodeId)
    /\ StatusIn(nodes, nodeId) = "offline"
    /\ Emitted(<<"node:offline", nodeId>>)

----------------------------------------------------------------------------
(* C6 *)

(* C6: outside registerNode, a node is set to offline, and node:offline is *)
(* emitted for it, only by a step that finds now - lastHeartbeat strictly  *)
(* greater than 2H; a node whose heartbeat is at most 2H old is never set  *)
(* to offline                                                              *)
C6_OfflineOnlyWhenLate ==
  [][\A nodeId \in NodeIds :
       (/\ op'[1] # "registerNode"
        /\ \/ /\ StatusIn(nodes', nodeId) = "offline"
              /\ StatusIn(nodes, nodeId) \in {"online", "busy"}
           \/ /\ Count(emitted', <<"node:offline", nodeId>>) > 0
              /\ op'[1] = "checkHeartbeat")
       => HeartbeatLate(nodeId)]_vars

(* A liveness check has just found a heartbeat exactly 2H old and left the *)
(* node online                                                             *)
C6_Witness ==
  \E nodeId \in NodeIds :
    /\ op = <<"checkHeartbeat", nodeId>>
    /\ StatusIn(nodes, nodeId) = "online"
    /\ now - LastHeartbeatIn(nodes, nodeId) = 2 * heartbeatInterval
    /\ emitted = <<>>

----------------------------------------------------------------------------
(* C7 *)

OthersUnchanged(nodeId) ==
  /\ Len(nodes') = Len(nodes)
  /\ \A i \in 1..Len(nodes) : nodes[i].nodeId # nodeId => nodes'[i] = nodes[i]

(* C7: heartbeat on an offline node sets it online and emits exactly one   *)
(* node:online; on an online or busy node it only updates lastHeartbeat;   *)
(* on an unregistered nodeId it changes nothing and emits nothing          *)
C7_Heartbeat ==
  [][\A nodeId \in NodeIds :
       op' = <<"heartbeat", nodeId>> =>
         /\ OthersUnchanged(nodeId)
         /\ UNCHANGED <<tasks, timeouts, assigning, intervals, heartbeatTimers>>
         /\ CASE StatusIn(nodes, nodeId) = "absent" ->
                  nodes' = nodes /\ emitted' = <<>>
              [] StatusIn(nodes, nodeId) = "offline" ->
                  /\ StatusIn(nodes', nodeId) = "online"
                  /\ LastHeartbeatIn(nodes', nodeId) = now
                  /\ emitted' = << <<"node:online", nodeId>> >>
              [] OTHER ->
                  /\ StatusIn(nodes', nodeId) = StatusIn(nodes, nodeId)
                  /\ LastHeartbeatIn(nodes', nodeId) = now
                  /\ emitted' = <<>>]_vars

(* A heartbeat has just brought back a node that a liveness check had set  *)
(* to offline                                                              *)
C7_Witness ==
  \E nodeId \in NodeIds :
    /\ op = <<"heartbeat", nodeId>>
    /\ emitted = << <<"node:online", nodeId>> >>
    /\ StatusIn(nodes, nodeId) = "online"
    /\ LastHeartbeatIn(nodes, nodeId) = now
    /\ now > 2 * heartbeatInterval

----------------------------------------------------------------------------
(* C8 *)

SourceOrg(task) == SplitHead(task.sourceNode)

TargetOrgs(task) == {SplitHead(task.targetNodes[i]) : i \in 1..Len(task.targetNodes)}

(* An agent2agent channel with this status from the task's source          *)
(* organization to one of its targets' organizations                       *)
HasA2A(chs, task, status) ==
  \E k \in DOMAIN chs :
    /\ chs[k].channelType = "agent2agent"
    /\ chs[k].status = status
    /\ chs[k].sourceOrgId = SourceOrg(task)
    /\ chs[k].targetOrgId \in TargetOrgs(task)

InQueue(queue, task) == \E i \in 1..Len(queue) : queue[i] = task

(* C8: route(task) with a registered source organization and no active     *)
(* agent2agent channel from it to a target organization appends the task   *)
(* at the tail of the queue, emits task:queued and nothing else, raises    *)
(* queuedTasks by exactly 1 and schedules no delivery                      *)
C8_RouteQueues ==
  [][\A task \in RouterTasks :
       ( /\ op'[1] = "route"
         /\ op'[2] = task.taskId
         /\ HasOrganization(SourceOrg(task))
         /\ ~HasA2A(channels, task, "active") ) =>
         /\ op'[3] = "ok"
         /\ messageQueue' = messageQueue \o <<task>>
         /\ emitted' = << <<"task:queued", task.taskId>> >>
         /\ RouterStatsOf(organizations', channels', messageQueue').queuedTasks =
              getRouterStats.queuedTasks + 1
         /\ deliveries' = deliveries]_vars

(* route has just queued a task behind another one while a paused          *)
(* agent2agent channel to its target exists                                *)
C8_Witness ==
  \E task \in RouterTasks :
    /\ op = <<"route", task.taskId, "ok">>
    /\ Len(messageQueue) = 2
    /\ messageQueue[2] = task
    /\ Emitted(<<"task:queued", task.taskId>>)
    /\ HasA2A(channels, task, "paused")

----------------------------------------------------------------------------
(* C9 and C10 *)

Scheduled(task) == \E i \in 1..Len(deliveries) : deliveries[i].task = task

Delivered(task) ==
  \E i \in 1..Len(emitted) :
    emitted[i][1] = "task:delivered" /\ emitted[i][2] = task.taskId

Resumed(task) ==
  /\ op[1] = "resumeChannel"
  /\ \E k \in DOMAIN channels :
       /\ op[2] = k
       /\ channels[k].channelType = "agent2agent"
       /\ channels[k].sourceOrgId = SourceOrg(task)
       /\ channels[k].targetOrgId \in TargetOrgs(task)

(* The task was in the queue when its channel was resumed: it still is,    *)
(* or the call has just routed it                                          *)
ResumedWhileQueued(task) ==
  /\ Resumed(task)
  /\ \/ InQueue(messageQueue, task)
     \/ Scheduled(task) /\ Emitted(<<"task:routing", task.taskId, op[2]>>)

(* C9, as stated: once the agent2agent channel of a queued task has been   *)
(* resumed, task:delivered is eventually emitted for the task (or the      *)
(* channel has been paused again), whatever else is in the queue           *)
C9_ResumeDelivers ==
  \A task \in RouterTasks :
    ResumedWhileQueued(task)
      ~> (Delivered(task) \/ ~HasA2A(channels, task, "active"))

DrainPending(d) == \E i \in 1..Len(microtasks) : microtasks[i] = Drain(d)

(* C10, as stated: every queue drain started by resumeChannel ends *)
C10_DrainTerminates ==
  \A d \in 1..MaxDrains : DrainPending(d) ~> ~DrainPending(d)

----------------------------------------------------------------------------
(* C11 *)

(* The step is an iteration of a queue drain: the call of resumeChannel on *)
(* an existing channel, or a continuation of processQueue, with a task in  *)
(* the queue                                                               *)
DrainIteration ==
  /\ messageQueue # <<>>
  /\ \/ op'[1] = "processQueue"
     \/ op'[1] = "resumeChannel" /\ op'[2] \in DOMAIN channels

(* C11: every iteration of a drain takes the task at the head of the       *)
(* global queue, whatever channel was resumed; the task is scheduled for   *)
(* delivery if it has an active agent2agent channel and put back at the    *)
(* tail otherwise                                                          *)
C11_DrainIsFifo ==
  [][DrainIteration =>
          LET head == messageQueue[1] IN
          IF HasA2A(channels', head, "active")
            THEN /\ messageQueue' = Tail(messageQueue)
                 /\ Len(deliveries') = Len(deliveries) + 1
                 /\ deliveries'[Len(deliveries')].task = head
                 /\ SubSeq(deliveries', 1, Len(deliveries)) = deliveries
            ELSE /\ messageQueue' = Tail(messageQueue) \o <<head>>
                 /\ deliveries' = deliveries
                 /\ emitted'[Len(emitted')] = <<"task:queued", head.taskId>>]_vars

(* resumeChannel on a channel to o3 has just attempted a task for o2 and   *)
(* put it back at the tail, behind a task for o3                           *)
C11_Witness ==
  /\ op = <<"resumeChannel", ChannelId(<<"o", "1">>, <<"o", "3">>, "agent2agent")>>
  /\ Len(messageQueue) = 2
  /\ TargetOrgs(messageQueue[1]) = {<<"o", "3">>}
  /\ TargetOrgs(messageQueue[2]) = {<<"o", "2">>}
  /\ Emitted(<<"task:queued", messageQueue[2].taskId>>)

----------------------------------------------------------------------------
(* C12 *)

(* C12: route(task) whose source organization is not registered fails with *)
(* an error and changes nothing: queue, channels, organizations, scheduled *)
(* deliveries and the coordinator's tasks are unchanged and no event is    *)
(* emitted                                                                 *)
C12_UnknownSourceFails ==
  [][\A task \in RouterTasks :
       ( /\ op'[1] = "route"
         /\ op'[2] = task.taskId
         /\ \A i \in 1..Len(organizations) :
              organizations[i].orgId # SourceOrg(task) ) =>
         /\ op'[3] = "error"
         /\ emitted' = <<>>
         /\ UNCHANGED <<messageQueue, channels, organizations, deliveries, microtasks>>
         /\ UNCHANGED coordinatorVars]_vars

(* route has just failed although another organization is registered and  *)
(* an active agent2agent channel for the task exists                       *)
C12_Witness ==
  \E task \in RouterTasks :
    /\ op = <<"route", task.taskId, "error">>
    /\ organizations # <<>>
    /\ HasA2A(channels, task, "active")
    /\ messageQueue = <<>>
    /\ deliveries = <<>>

----------------------------------------------------------------------------
(* C13 *)

(* C13: after route(task) between two registered organizations,            *)
(* getStats().channels is greater than 0                                   *)
C13_RouteLeavesChannel ==
  [][\A task \in RouterTasks :
       ( /\ op'[1] = "route"
         /\ op'[2] = task.taskId
         /\ HasOrganization(SourceOrg(task))
         /\ \A orgId \in TargetOrgs(task) : HasOrganization(orgId) ) =>
         RouterStatsOf(organizations', channels', messageQueue').channels > 0]_vars

----------------------------------------------------------------------------
(* C14 *)

RecordsOf(chs, sourceOrgId, targetOrgId, channelType) ==
  {k \in DOMAIN chs : /\ chs[k].sourceOrgId = sourceOrgId
                      /\ chs[k].targetOrgId = targetOrgId
                      /\ chs[k].channelType = channelType}

(* C14: createChannel returns the identifier under which the one record of *)
(* the triple is kept, the same as that of a record the triple had before  *)
(* the call; the call leaves that channel active and every other channel   *)
(* as it was                                                               *)
C14_CreateChannelIdempotent ==
  [][\A c \in ChannelTriples :
       createChannel(c[1], c[2], c[3]) =>
         /\ RecordsOf(channels', c[1], c[2], c[3]) = {op'[2]}
         /\ RecordsOf(channels, c[1], c[2], c[3]) \subseteq {op'[2]}
         /\ channels'[op'[2]].status = "active"
         /\ DOMAIN channels' = DOMAIN channels \cup {op'[2]}
         /\ \A k \in DOMAIN channels : k # op'[2] => channels'[k] = channels[k]]_vars

(* createChannel has just been called for a paused channel, with a task    *)
(* waiting in the queue, and has left it active                            *)
C14_Witness ==
  /\ op[1] = "createChannel"
  /\ op[3] = "paused"
  /\ channels[op[2]].status = "active"
  /\ Cardinality(DOMAIN channels) >= 2
  /\ messageQueue # <<>>

----------------------------------------------------------------------------
(* C15 *)

ChannelTypes == {"agent2agent", "org2org", "sensor2agent", "broadcast"}

TypedChannelIds == {ChannelId(<<"o", "1">>, <<"o", "2">>, type) : type \in ChannelTypes}

(* The router with channels of every type between o1 and o2 *)
TypesNext ==
  \/ registerOrganization([orgId |-> <<"o", "1">>, name |-> "org"])
  \/ \E type \in ChannelTypes : createChannel(<<"o", "1">>, <<"o", "2">>, type)
  \/ \E task \in {t \in RouterTasks : TargetOrgs(t) = {<<"o", "2">>}} : routeCall(task)
  \/ \E channelId \in TypedChannelIds : pauseChannel(channelId)
  \/ \E channelId \in TypedChannelIds : resumeChannel(channelId)
  \/ DrainStep
  \/ Deliver

TypesSpec == Init /\ [][TypesNext]_vars

IsA2A(chs, channelId) ==
  channelId \in DOMAIN chs /\ chs[channelId].channelType = "agent2agent"

(* C15: every delivery that a step schedules, and every task:routing and   *)
(* task:delivered event, names a channel of type agent2agent; and route    *)
(* with a registered source and no agent2agent channel between source and  *)
(* target queues the task, whatever channels of other types exist          *)
C15_OnlyAgent2Agent ==
  [][/\ \A i \in 1..Len(deliveries') : IsA2A(channels', deliveries'[i].channel)
     /\ \A i \in 1..Len(emitted') :
          emitted'[i][1] \in {"task:routing", "task:delivered"} =>
            IsA2A(channels', emitted'[i][3])
     /\ \A task \in RouterTasks :
          ( /\ op'[1] = "route"
            /\ op'[2] = task.taskId
            /\ HasOrganization(SourceOrg(task))
            /\ ~HasA2A(channels, task, "active")
            /\ ~HasA2A(channels, task, "paused") ) =>
            /\ messageQueue' = messageQueue \o <<task>>
            /\ emitted' = << <<"task:queued", task.taskId>> >>
            /\ deliveries' = deliveries]_vars

(* route has just queued a task while active org2org, sensor2agent and     *)
(* broadcast channels between its organizations exist, and no agent2agent  *)
(* channel                                                                 *)
C15_Witness ==
  \E task \in RouterTasks :
    /\ op = <<"route", task.taskId, "ok">>
    /\ Emitted(<<"task:queued", task.taskId>>)
    /\ \A type \in ChannelTypes \ {"agent2agent"} :
         \E k \in DOMAIN channels :
           /\ channels[k].channelType = type
           /\ channels[k].status = "active"
           /\ channels[k].sourceOrgId = SourceOrg(task)
           /\ channels[k].targetOrgId \in TargetOrgs(task)
    /\ \A k \in DOMAIN channels : channels[k].channelType # "agent2agent"

----------------------------------------------------------------------------
(* C16 *)

(* The orgIds of the registered organizations other than the source, in    *)
(* registration order                                                      *)
OthersInOrder(orgs, sourceOrgId) ==
  SelectSeq([i \in 1..Len(orgs) |-> orgs[i].orgId], LAMBDA orgId : orgId # sourceOrgId)

IsPrefix(s, t) == Len(s) <= Len(t) /\ SubSeq(t, 1, Len(s)) = s

InFlight == messageQueue \o [i \in 1..Len(deliveries) |-> deliveries[i].task]

(* The step is one of broadcast(task): its call or a continuation *)
BroadcastOf(task) ==
  op'[1] \in {"broadcast", "broadcast:next"} /\ op'[2] = task.taskId

(* C16: a broadcast from a registered source routes, step by step, to the  *)
(* registered organizations other than the source in registration order,   *)
(* each once; each route is of a copy with taskId '<taskId>-<orgId>' and   *)
(* the single target '<orgId>:broadcast'; the task itself and a copy for   *)
(* the source organization are never queued or scheduled                   *)
C16_BroadcastRoutesOthers ==
  [][\A task \in BroadcastTasks :
       (BroadcastOf(task) /\ HasOrganization(SourceOrg(task))) =>
         LET others == OthersInOrder(organizations', SourceOrg(task))
             visited == op'[3]
         IN
         /\ IsPrefix(visited, others)
         /\ op'[4] = "done" => visited = others /\ emitted' = <<>>
         /\ op'[4] # "error"
         /\ op'[4] = "await" =>
              LET orgId == visited[Len(visited)]
                  copy == [taskId |-> task.taskId \o <<"-">> \o orgId,
                           sourceNode |-> task.sourceNode,
                           targetNodes |-> << orgId \o <<":", "broadcast">> >>]
              IN
              /\ Len(emitted') = 1
              /\ emitted'[1][2] = copy.taskId
              /\ \/ messageQueue' = messageQueue \o <<copy>> /\ deliveries' = deliveries
                 \/ /\ messageQueue' = messageQueue
                    /\ Len(deliveries') = Len(deliveries) + 1
                    /\ deliveries'[Len(deliveries')].task = copy
                    /\ SubSeq(deliveries', 1, Len(deliveries)) = deliveries
         /\ \A i \in 1..Len(InFlight') :
              /\ InFlight'[i].taskId # task.taskId
              /\ InFlight'[i].taskId # task.taskId \o <<"-">> \o SourceOrg(task)]_vars

(* A broadcast has ended after routing to the two other organizations,     *)
(* with the source organization registered between them                    *)
C16_Witness ==
  /\ op[1] = "broadcast:next"
  /\ op[4] = "done"
  /\ Len(op[3]) = 2
  /\ Len(organizations) = 3
  /\ organizations[2].orgId = <<"o", "1">>
  /\ op[3] = <<organizations[1].orgId, organizations[3].orgId>>
  /\ Len(InFlight) = 2

----------------------------------------------------------------------------
(* C17 *)

ActiveTo(chs, sourceOrgId, targetOrgId) ==
  {k \in DOMAIN chs : /\ chs[k].channelType = "agent2agent"
                      /\ chs[k].status = "active"
                      /\ chs[k].sourceOrgId = sourceOrgId
                      /\ chs[k].targetOrgId = targetOrgId}

UnknownSource(task) ==
  \A i \in 1..Len(organizations) : organizations[i].orgId # SourceOrg(task)

NothingRouted ==
  /\ emitted' = <<>>
  /\ UNCHANGED <<messageQueue, deliveries, microtasks, channels, organizations>>

(* The copy for an organization is scheduled for delivery if an active     *)
(* agent2agent channel from the source to it exists, and queued otherwise  *)
IndependentOutcome(task) ==
  (BroadcastOf(task) /\ op'[4] = "await") =>
    LET orgId == op'[3][Len(op'[3])]
        copyId == task.taskId \o <<"-">> \o orgId
        active == ActiveTo(channels, SourceOrg(task), orgId)
    IN
    IF active # {}
      THEN /\ messageQueue' = messageQueue
           /\ Len(deliveries') = Len(deliveries) + 1
           /\ deliveries'[Len(deliveries')].task.taskId = copyId
           /\ deliveries'[Len(deliveries')].channel \in active
           /\ emitted' = << <<"task:routing", copyId, deliveries'[Len(deliveries')].channel>> >>
      ELSE /\ Len(messageQueue') = Len(messageQueue) + 1
           /\ messageQueue'[Len(messageQueue')].taskId = copyId
           /\ deliveries' = deliveries
           /\ emitted' = << <<"task:queued", copyId>> >>

(* C17, as stated: a broadcast whose source organization is not registered *)
(* fails with an error and neither queues nor routes a copy                *)
C17_UnknownSourceFails ==
  [][\A task \in BroadcastTasks :
       (op'[1] = "broadcast" /\ op'[2] = task.taskId /\ UnknownSource(task)) =>
         op'[4] = "error" /\ NothingRouted]_vars

(* C17, amended: the copies have independent outcomes; a broadcast whose   *)
(* source organization is not registered neither queues nor routes a copy, *)
(* and fails with an error if some organization is registered, but ends    *)
(* without error when none is                                              *)
C17_IndependentOutcomes ==
  [][\A task \in BroadcastTasks :
       /\ IndependentOutcome(task)
       /\ (op'[1] = "broadcast" /\ op'[2] = task.taskId /\ UnknownSource(task)) =>
            /\ NothingRouted
            /\ op'[4] = IF organizations = <<>> THEN "done" ELSE "error"]_vars

(* A broadcast has ended with the copy for one organization queued and the *)
(* copy for the other scheduled for delivery                               *)
C17_Witness ==
  /\ op[1] = "broadcast:next"
  /\ op[4] = "done"
  /\ Len(op[3]) = 2
  /\ Len(messageQueue) = 1
  /\ Len(deliveries) = 1
  /\ messageQueue[1].taskId = op[2] \o <<"-">> \o op[3][1]
  /\ deliveries[1].task.taskId = op[2] \o <<"-">> \o op[3][2]

----------------------------------------------------------------------------
(* C18 *)

(* C18: a task:completed is emitted only for a task for which task:assigned *)
(* has been emitted before, and at that moment the node it names is online *)
C18_AssignedBeforeCompleted ==
  [][\A taskId \in TaskIds, nodeId \in NodeIds :
       Count(emitted', <<"task:completed", taskId, nodeId>>) > 0 =>
         /\ taskId \in DOMAIN tasks
         /\ tasks[taskId].assigned
         /\ StatusIn(nodes', nodeId) = "online"]_vars

----------------------------------------------------------------------------
(* C19 *)

Registered(nodeId) == \E i \in 1..Len(nodes) : nodes[i].nodeId = nodeId

(* C19: registerNode of a nodeId that is not registered raises             *)
(* stats().totalNodes by 1, and onlineNodes by 1 if the node is registered *)
(* online; unregisterNode of a registered node lowers totalNodes by 1 and  *)
(* of any other nodeId leaves it; no other operation changes totalNodes    *)
C19_TotalNodes ==
  [][LET before == getStats
         after == StatsOf(nodes', tasks')
     IN
     /\ \A nodeId \in NodeIds :
          /\ (op' = <<"registerNode", nodeId>> /\ ~Registered(nodeId)) =>
               /\ after.totalNodes = before.totalNodes + 1
               /\ StatusIn(nodes', nodeId) = "online" =>
                    after.onlineNodes = before.onlineNodes + 1
          /\ op' = <<"unregisterNode", nodeId>> =>
               after.totalNodes = before.totalNodes - (IF Registered(nodeId) THEN 1 ELSE 0)
     /\ op'[1] \notin {"registerNode", "unregisterNode"} =>
          after.totalNodes = before.totalNodes]_vars

(* A registered node has just been unregistered while another node,        *)
(* registered online, remains                                              *)
C19_Witness ==
  /\ op[1] = "unregisterNode"
  /\ emitted = << <<"node:unregistered", op[2]>> >>
  /\ getStats.totalNodes = 1
  /\ getStats.onlineNodes = 1
  /\ ~Registered(op[2])

----------------------------------------------------------------------------
(* C20 *)

(* C20: the lastHeartbeat recorded for a nodeId never decreases *)
C20_LastHeartbeatMonotone ==
  [][\A nodeId \in NodeIds :
       (StatusIn(nodes, nodeId) # "absent" /\ StatusIn(nodes', nodeId) # "absent") =>
         LastHeartbeatIn(nodes', nodeId) >= LastHeartbeatIn(nodes, nodeId)]_vars

----------------------------------------------------------------------------
(* C21 *)

----------------------------------------------------------------------------
(* C25 *)

(* Target lists for the capable set: those of the model and two that name  *)
(* a node of another organization, so that only the nodeId can match       *)
C25_Targets ==
  TargetLists \cup
    { <<Composite(<<"o", "2">>, <<"n", "1", "0">>)>>,
      <<GhostTarget, Composite(<<"o", "2">>, <<"n", "1">>)>> }

Matches(node, targetNodes) ==
  \E target \in Range(targetNodes) :
    Includes(target, node.nodeId) \/ Includes(target, node.orgId)

(* C25: the capable set of a task is exactly the registered nodes that are *)
(* online and whose nodeId or orgId is a substring of some target, each    *)
(* once and in registry order; a busy or offline node is never in it; an   *)
(* online node n1 is in it for a target that names n10                     *)
C25_CapableSet ==
  \A targetNodes \in C25_Targets :
    LET capable == findCapableNodes(targetNodes)
        expected == {node \in Range(nodes) :
                       node.status = "online" /\ Matches(node, targetNodes)}
    IN  /\ Range(capable) = expected
        /\ Len(capable) = Cardinality(expected)
        /\ \A i, j \in 1..Len(capable) :
             i < j => NodeIndex(capable[i].nodeId) < NodeIndex(capable[j].nodeId)
        /\ \A node \in Range(capable) : node.status \notin {"busy", "offline"}
        /\ (targetNodes = <<Composite(<<"o", "2">>, <<"n", "1", "0">>)>>) =>
             \A node \in Range(nodes) :
               (node.nodeId = <<"n", "1">> /\ node.status = "online") =>
                 node \in Range(capable)

(* createTask has just assigned n1 while n10, registered but not online,   *)
(* was passed over                                                         *)
C25_Witness ==
  /\ op[1] = "createTask"
  /\ Emitted(<<"task:assigned", op[2], <<"n", "1">>>>)
  /\ StatusIn(nodes, <<"n", "1">>) = "busy"
  /\ StatusIn(nodes, <<"n", "1", "0">>) \in {"busy", "offline"}
  /\ NodeIndex(<<"n", "1", "0">>) < NodeIndex(<<"n", "1">>)

----------------------------------------------------------------------------
(* C26 *)

(* The nodeIds of the registered online nodes that match a target, in      *)
(* registry order                                                          *)
OnlineMatching(targetNodes) ==
  LET kept == SelectSeq(nodes, LAMBDA node :
                          node.status = "online" /\ Matches(node, targetNodes))
  IN  [i \in 1..Len(kept) |-> kept[i].nodeId]

OthersKeepStatus(nodeId) ==
  \A other \in NodeIds \ {nodeId} : StatusIn(nodes', other) = StatusIn(nodes, other)

(* The node object of a pending assignment is still the registered one *)
SameObject(target) ==
  HasNode(target.nodeId) /\ heartbeatTimers[target.nodeId] = target.ref

(* C26: a createTask with a non-empty capable set selects the first        *)
(* min(|capable|, |targetNodes|) capable nodes in registry order; it       *)
(* assigns the first at once and each of the others in a continuation; an  *)
(* assignment sets its node busy, emits task:assigned once for it,         *)
(* schedules one completion and leaves the status of every other node      *)
C26_AssignsFirstCapable ==
  [][/\ \A taskId \in TaskIds, targetNodes \in TargetLists :
          (createTask(taskId, targetNodes) /\ OnlineMatching(targetNodes) # <<>>) =>
            LET capable == OnlineMatching(targetNodes)
                k == IF Len(capable) < Len(targetNodes)
                       THEN Len(capable) ELSE Len(targetNodes)
            IN  /\ emitted' = << <<"task:created", taskId>>,
                                 <<"task:assigned", taskId, capable[1]>> >>
                /\ StatusIn(nodes', capable[1]) = "busy"
                /\ OthersKeepStatus(capable[1])
                /\ Len(timeouts') = Len(timeouts) + 1
                /\ PendingAssignments(assigning') =
                     PendingAssignments(assigning) + (k - 1)
                /\ k > 1 =>
                     LET c == assigning'[Len(assigning')] IN
                     /\ c.taskId = taskId
                     /\ [i \in 1..Len(c.rest) |-> c.rest[i].nodeId] =
                          SubSeq(capable, 2, k)
     /\ AssignNext =>
          LET c == Head(assigning)
              target == Head(c.rest)
          IN  /\ emitted' = << <<"task:assigned", c.taskId, target.nodeId>> >>
              /\ SameObject(target) => StatusIn(nodes', target.nodeId) = "busy"
              /\ OthersKeepStatus(target.nodeId)
              /\ Len(timeouts') = Len(timeouts) + 1
              /\ PendingAssignments(assigning') = PendingAssignments(assigning) - 1
    ]_vars

(* The second of two selected nodes has just been assigned: createTask has *)
(* returned with both nodes busy and a completion scheduled for each       *)
C26_Witness ==
  /\ op = <<"assignTask", "t1", <<"n", "1", "0">>>>
  /\ emitted = << <<"task:assigned", "t1", <<"n", "1", "0">>>> >>
  /\ assigning = <<>>
  /\ StatusIn(nodes, <<"n", "1">>) = "busy"
  /\ StatusIn(nodes, <<"n", "1", "0">>) = "busy"
  /\ PendingCompletion("t1", <<"n", "1">>)
  /\ PendingCompletion("t1", <<"n", "1", "0">>)

----------------------------------------------------------------------------
(* C27 *)

(* The completions scheduled and not yet fired for a task *)
PendingFor(taskId) ==
  Cardinality({i \in 1..Len(timeouts) : timeouts[i].taskId = taskId})

(* C27: the completions scheduled for the assignments of a task fire once  *)
(* each and nothing cancels one; a firing that finds its node registered   *)
(* sets that node online, emits task:completed once and leaves the task    *)
(* completed, also when an earlier firing had completed it already; when   *)
(* two nodes are assigned to one task both completions fire                *)
C27_EachAssignmentCompletes ==
  /\ [][/\ TimeoutFire =>
             LET c == Head(timeouts) IN
             /\ timeouts' = Tail(timeouts)
             /\ Registered(c.nodeId) =>
                  /\ StatusIn(nodes', c.nodeId) = "online"
                  /\ emitted' = << <<"task:completed", c.taskId, c.nodeId>> >>
                  /\ StatusInTasks(tasks', c.taskId) = "completed"
             /\ StatusInTasks(tasks, c.taskId) = "completed" =>
                  StatusInTasks(tasks', c.taskId) = "completed"
        /\ \A taskId \in TaskIds :
             PendingFor(taskId)' < PendingFor(taskId) =>
               /\ TimeoutFire
               /\ Head(timeouts).taskId = taskId
               /\ PendingFor(taskId)' = PendingFor(taskId) - 1
       ]_vars
  /\ \A taskId \in TaskIds :
       (PendingFor(taskId) = 2) ~> (PendingFor(taskId) = 0)

(* The first of the two completions of one task has fired: the task is     *)
(* completed, its node is online again, and the other assigned node is     *)
(* still busy with its completion pending                                  *)
C27_Witness ==
  /\ op = <<"completion", "t1", <<"n", "1">>, "busy">>
  /\ emitted = << <<"task:completed", "t1", <<"n", "1">>>> >>
  /\ StatusInTasks(tasks, "t1") = "completed"
  /\ StatusIn(nodes, <<"n", "1">>) = "online"
  /\ StatusIn(nodes, <<"n", "1", "0">>) = "busy"
  /\ PendingCompletion("t1", <<"n", "1", "0">>)

----------------------------------------------------------------------------
(* C28 *)

(* C28: a liveness check or a heartbeat cancels no scheduled completion,   *)
(* and a completion that fires while its node is registered, whatever the  *)
(* status it finds (offline included), leaves the task completed with      *)
(* completedAt the time of the firing, sets the node online and emits      *)
(* task:completed                                                          *)
C28_CompletionNotGated ==
  [][/\ op'[1] \in {"checkHeartbeat", "heartbeat"} => timeouts' = timeouts
     /\ \A taskId \in TaskIds, nodeId \in NodeIds, status \in NodeStatuses :
          op' = <<"completion", taskId, nodeId, status>> =>
            /\ StatusIn(nodes, nodeId) = status
            /\ StatusInTasks(tasks', taskId) = "completed"
            /\ tasks'[taskId].completedAt = now
            /\ StatusIn(nodes', nodeId) = "online"
            /\ Count(emitted', <<"task:completed", taskId, nodeId>>) = 1
    ]_vars

(* A completion has fired on a node that a liveness check had set offline: *)
(* the node is online again and its task completed                         *)
C28_Witness ==
  /\ op[1] = "completion"
  /\ op[4] = "offline"
  /\ StatusIn(nodes, op[3]) = "online"
  /\ HeartbeatLate(op[3])
  /\ StatusInTasks(tasks, op[2]) = "completed"
  /\ Emitted(<<"task:completed", op[2], op[3]>>)

----------------------------------------------------------------------------
(* C29 *)

(* The active liveness timers whose callback checks the nodeId *)
TimersOf(its, nodeId) == {timer \in DOMAIN its : its[timer].nodeId = nodeId}

(* C29: unregisterNode of a registered node removes its record, emits      *)
(* node:unregistered once and leaves no active liveness timer for the      *)
(* nodeId; of an absent nodeId it changes nothing and emits nothing; at    *)
(* any time at most one liveness timer is active for a nodeId, and none    *)
(* for a nodeId that is not registered                                     *)
C29_UnregisterClearsTimers ==
  [][/\ \A nodeId \in NodeIds :
          op' = <<"unregisterNode", nodeId>> =>
            IF Registered(nodeId)
              THEN /\ StatusIn(nodes', nodeId) = "absent"
                   /\ emitted' = << <<"node:unregistered", nodeId>> >>
                   /\ TimersOf(intervals', nodeId) = {}
              ELSE /\ emitted' = <<>>
                   /\ UNCHANGED <<nodes, intervals, heartbeatTimers>>
     /\ \A nodeId \in NodeIds :
          /\ Cardinality(TimersOf(intervals', nodeId)) <= 1
          /\ StatusIn(nodes', nodeId) = "absent" =>
               TimersOf(intervals', nodeId) = {}
    ]_vars

(* A nodeId registered twice and then unregistered: its record is gone     *)
(* and the liveness timer of its first registration is still active        *)
C29_Witness ==
  \E nodeId \in NodeIds :
    /\ op = <<"unregisterNode", nodeId>>
    /\ emitted = << <<"node:unregistered", nodeId>> >>
    /\ StatusIn(nodes, nodeId) = "absent"
    /\ heartbeatTimers[nodeId] = NoTimer
    /\ TimersOf(intervals, nodeId) # {}

----------------------------------------------------------------------------
(* C30 *)

(* C30: createTask emits task:created first and leaves the task recorded   *)
(* as pending, or as failed when no node is capable; the recorded status   *)
(* of a taskId then changes only from pending to failed or from pending to *)
(* completed; no task is ever processing                                   *)
C30_StatusStateMachine ==
  [][/\ \A taskId \in TaskIds :
          /\ op' = <<"createTask", taskId>> =>
               /\ emitted'[1] = <<"task:created", taskId>>
               /\ StatusInTasks(tasks', taskId) \in {"pending", "failed"}
          /\ (/\ StatusInTasks(tasks, taskId) # "none"
              /\ StatusInTasks(tasks', taskId) # StatusInTasks(tasks, taskId)) =>
               <<StatusInTasks(tasks, taskId), StatusInTasks(tasks', taskId)>> \in
                 { <<"pending", "failed">>, <<"pending", "completed">> }
     /\ StatsOf(nodes', tasks').processingTasks = 0
    ]_vars

(* C30, what the code does: no task submitted as pending is ever          *)
(* processing                                                              *)
C30_NeverProcessing ==
  /\ getStats.processingTasks = 0
  /\ \A taskId \in DOMAIN tasks : tasks[taskId].status # "processing"

(* A failed task has been completed by a direct call of completeTask *)
C30_Witness ==
  /\ op[1] = "completeTask"
  /\ Emitted(<<"task:completed", op[2], op[3]>>)
  /\ StatusInTasks(tasks, op[2]) = "completed"
  /\ ~tasks[op[2]].assigned

----------------------------------------------------------------------------
(* C24 *)

OrgNames == {"org", "renamed"}

(* The registry of organizations: registrations under two names, and route *)
(* calls that consult it                                                   *)
RegistryNext ==
  \/ \E orgId \in BroadcastOrgIds, name \in OrgNames :
       registerOrganization([orgId |-> orgId, name |-> name])
  \/ \E task \in RouterTasks : routeCall(task)

RegistrySpec == Init /\ [][RegistryNext]_vars

OrgIdsOf(orgs) == {orgs[i].orgId : i \in 1..Len(orgs)}

RecordsFor(orgs, orgId) == {i \in 1..Len(orgs) : orgs[i].orgId = orgId}

(* C24: registerOrganization always succeeds and emits org:registered      *)
(* once; it leaves exactly one record under its orgId, the one passed;     *)
(* stats().organizations rises by 1 for a new orgId and stays for a        *)
(* registered one, so it is always the number of distinct orgIds           *)
(* registered; the other records are left as they were, and no other       *)
(* operation changes the registry                                          *)
C24_RegisterUpserts ==
  [][/\ \A orgId \in BroadcastOrgIds, name \in OrgNames :
          registerOrganization([orgId |-> orgId, name |-> name]) =>
            LET before == RouterStatsOf(organizations, channels, messageQueue)
                after == RouterStatsOf(organizations', channels', messageQueue')
            IN  /\ emitted' = << <<"org:registered", orgId>> >>
                /\ op' = <<"registerOrganization", orgId>>
                /\ after.organizations =
                     before.organizations +
                       (IF orgId \in OrgIdsOf(organizations) THEN 0 ELSE 1)
                /\ \E i \in 1..Len(organizations') :
                     /\ RecordsFor(organizations', orgId) = {i}
                     /\ organizations'[i] = [orgId |-> orgId, name |-> name]
                /\ \A other \in BroadcastOrgIds \ {orgId} :
                     {organizations'[i] : i \in RecordsFor(organizations', other)} =
                       {organizations[i] : i \in RecordsFor(organizations, other)}
     /\ RouterStatsOf(organizations', channels', messageQueue').organizations =
          Cardinality(OrgIdsOf(organizations'))
     /\ op'[1] # "registerOrganization" => organizations' = organizations
     /\ \A orgId \in BroadcastOrgIds :
          ENABLED registerOrganization([orgId |-> orgId, name |-> "renamed"])
    ]_vars

(* An organization registered before another one has been registered       *)
(* again under a new name: two organizations, the new record in the place  *)
(* of the old                                                              *)
C24_Witness ==
  /\ op = <<"registerOrganization", <<"o", "1">>>>
  /\ emitted = << <<"org:registered", <<"o", "1">>>> >>
  /\ Len(organizations) = 2
  /\ organizations[1] = [orgId |-> <<"o", "1">>, name |-> "renamed"]
  /\ getRouterStats.organizations = 2

----------------------------------------------------------------------------
(* C23 *)

(* C23: the value queryByConversation(c) returns is ordered ascending by   *)
(* timestamp, holds no fragment twice, holds every stored fragment of      *)
(* conversation c, and holds only stored fragments whose id was stored     *)
(* under c, in whatever order the fragments were stored                    *)
C23_QueryAscending ==
  op[1] = "queryByConversation" =>
    LET c == op[2] IN
    /\ \A i, j \in 1..Len(returned) :
         i < j => /\ returned[i].timestamp <= returned[j].timestamp
                  /\ returned[i].id # returned[j].id
    /\ \A id \in DOMAIN fragments :
         fragments[id].conversationId = c =>
           \E i \in 1..Len(returned) : returned[i] = fragments[id]
    /\ \A i \in 1..Len(returned) :
         /\ returned[i].id \in DOMAIN fragments
         /\ fragments[returned[i].id] = returned[i]
         /\ c \in DOMAIN indexByConversation
         /\ returned[i].id \in Range(indexByConversation[c])

(* Three fragments of one conversation, the one stored first carrying the  *)
(* latest timestamp, have been queried: the fragment stored first is       *)
(* returned last                                                           *)
C23_Witness ==
  /\ op = <<"queryByConversation", "c1">>
  /\ Len(returned) = 3
  /\ \A i \in 1..3 : returned[i].conversationId = "c1"
  /\ returned[3].id = indexByConversation["c1"][1]
  /\ returned[1].timestamp < returned[3].timestamp

----------------------------------------------------------------------------
(* C22 *)

(* An ASISystem: nodes are registered online, every task is submitted once *)
(* under its own taskId, and tasks are routed over one channel; the timers *)
(* of the coordinator and of the router fire when no continuation is       *)
(* pending                                                                 *)
SystemNext ==
  \/ \E nodeId \in NodeIds : registerNode(nodeId, OrgOf(nodeId), "online", now)
  \/ \E taskId \in TaskIds, targetNodes \in TargetLists :
       ~HasTask(taskId) /\ createTask(taskId, targetNodes)
  \/ AssignNext
  \/ \E timer \in 1..MaxTimers : IntervalFire(timer)
  \/ TimeoutFire
  \/ Tick
  \/ registerOrganization([orgId |-> <<"o", "1">>, name |-> "org"])
  \/ createChannel(<<"o", "1">>, <<"o", "2">>, "agent2agent")
  \/ \E task \in {t \in RouterTasks : TargetOrgs(t) = {<<"o", "2">>}} : routeCall(task)
  \/ assigning = <<>> /\ Deliver

SystemSpec == SystemInit /\ [][SystemNext]_vars

(* The events of a step that a subscribed handler answers with one call of *)
(* store                                                                   *)
Handled(events) ==
  SelectSeq(events, LAMBDA event : event[1] \in {"task:completed", "task:delivered"})

(* After the step the fragment of the completed task is stored as the      *)
(* handler builds it, and no other fragment was added or changed           *)
TaskStored(taskId, nodeId) ==
  LET id == <<"task", taskId>> IN
  /\ DOMAIN fragments' = (DOMAIN fragments) \cup {id}
  /\ fragments'[id] = [id |-> id, timestamp |-> now, platformId |-> "botnet",
                       conversationId |-> <<taskId>>, recursiveDepth |-> 0,
                       parentReferences |-> <<>>,
                       content |-> << <<taskId>>, nodeId >>]
  /\ \A other \in (DOMAIN fragments) \ {id} : fragments'[other] = fragments[other]

DeliveryStored(taskId) ==
  LET id == <<"delivery">> \o taskId \o <<now>> IN
  /\ DOMAIN fragments' = (DOMAIN fragments) \cup {id}
  /\ fragments'[id].recursiveDepth = 0
  /\ fragments'[id].parentReferences = << <<"task">> \o taskId >>
  /\ fragments'[id].conversationId = taskId
  /\ id \in Range(indexByParent'[<<"task">> \o taskId])
  /\ \A other \in (DOMAIN fragments) \ {id} : fragments'[other] = fragments[other]

StorePerEvent ==
  /\ Len(Handled(emitted')) <= 1
  /\ \A taskId \in TaskIds, nodeId \in NodeIds :
       Handled(emitted') = << <<"task:completed", taskId, nodeId>> >> =>
         TaskStored(taskId, nodeId)
  /\ \A task \in RouterTasks, channelId \in ChannelIds :
       Handled(emitted') = << <<"task:delivered", task.taskId, channelId>> >> =>
         DeliveryStored(task.taskId)
  /\ Handled(emitted') = <<>> =>
       UNCHANGED <<fragments, indexByPlatform, indexByConversation, indexByParent>>

(* C22, as stated: store is called once for each delivered message and     *)
(* once for each task that completes, whatever the number of nodes         *)
(* assigned: a call for a task finds no fragment of that task              *)
C22_StoreOncePerTask ==
  [][/\ StorePerEvent
     /\ \A taskId \in TaskIds, nodeId \in NodeIds :
          Handled(emitted') = << <<"task:completed", taskId, nodeId>> >> =>
            <<"task", taskId>> \notin DOMAIN fragments
    ]_vars

(* C22, what the code does: store is called once for each task:completed   *)
(* event and once for each task:delivered event, with the fragment of the  *)
(* event                                                                   *)
(* (recursiveDepth 0; no parent for a completion, the task fragment id for *)
(* a delivery), and at no other step; the completion of a task that has a  *)
(* fragment already stores it again under the same id, with the time and   *)
(* the node of the later firing                                            *)
C22_StoreOncePerEvent ==
  [][/\ StorePerEvent
     /\ \A taskId \in TaskIds :
          (TimeoutFire /\ Head(timeouts).taskId = taskId
             /\ Registered(Head(timeouts).nodeId)) =>
            /\ Len(Handled(emitted')) = 1
            /\ fragments'[<<"task", taskId>>].timestamp = now
     /\ Deliver => Len(Handled(emitted')) = 1
    ]_vars

(* The first of two completions of one task has fired and its fragment is  *)
(* stored, the other assigned node is still busy with its completion       *)
(* pending, and a delivery has been stored as well                         *)
C22_Witness ==
  /\ subscribed
  /\ op[1] = "completion" /\ op[2] = "t1" /\ op[3] = <<"n", "1">>
  /\ <<"task", "t1">> \in DOMAIN fragments
  /\ StatusIn(nodes, <<"n", "1", "0">>) = "busy"
  /\ PendingCompletion("t1", <<"n", "1", "0">>)
  /\ \E id \in DOMAIN fragments :
       /\ fragments[id].platformId = "multiplex"
       /\ fragments[id].parentReferences = << <<"task", "a">> >>

----------------------------------------------------------------------------
(* C31 *)

(* The records of every channel other than channelId are left as they were *)
OtherChannelsKept(channelId) ==
  /\ DOMAIN channels' = DOMAIN channels
  /\ \A other \in (DOMAIN channels) \ {channelId} : channels'[other] = channels[other]

(* The agent2agent channel from the source of the task to its (one) target *)
PairChannel(task) ==
  ChannelId(SourceOrg(task), SplitHead(task.targetNodes[1]), "agent2agent")

(* C31: pauseChannel of an existing channel sets its status to paused and  *)
(* emits channel:paused; resumeChannel sets it to active and emits         *)
(* channel:resumed first; on an unknown channelId both leave the router as *)
(* it was and emit nothing, and resumeChannel starts no drain; a route     *)
(* with a registered source while the agent2agent channel of its pair is   *)
(* paused queues the task and schedules no delivery                        *)
C31_PauseResume ==
  [][/\ \A channelId \in ChannelIds :
          /\ op' = <<"pauseChannel", channelId>> =>
               IF channelId \in DOMAIN channels
                 THEN /\ channels'[channelId].status = "paused"
                      /\ OtherChannelsKept(channelId)
                      /\ emitted' = << <<"channel:paused", channelId>> >>
                      /\ UNCHANGED <<messageQueue, deliveries, microtasks>>
                 ELSE /\ emitted' = <<>>
                      /\ UNCHANGED routerVars
          /\ op' = <<"resumeChannel", channelId>> =>
               IF channelId \in DOMAIN channels
                 THEN /\ channels'[channelId].status = "active"
                      /\ OtherChannelsKept(channelId)
                      /\ emitted'[1] = <<"channel:resumed", channelId>>
                 ELSE /\ emitted' = <<>>
                      /\ UNCHANGED routerVars
     /\ \A task \in RouterTasks :
          ( /\ op'[1] = "route" /\ op'[2] = task.taskId
            /\ HasOrganization(SourceOrg(task))
            /\ PairChannel(task) \in DOMAIN channels
            /\ channels[PairChannel(task)].status = "paused" ) =>
            /\ messageQueue' = Append(messageQueue, task)
            /\ emitted' = << <<"task:queued", task.taskId>> >>
            /\ deliveries' = deliveries
    ]_vars

(* resumeChannel has been called for a channel that does not exist while a *)
(* task is queued behind a paused channel: nothing happened, no drain runs *)
C31_Witness ==
  \E channelId \in ChannelIds, task \in RouterTasks :
    /\ op = <<"resumeChannel", channelId>>
    /\ channelId \notin DOMAIN channels
    /\ emitted = <<>>
    /\ InQueue(messageQueue, task)
    /\ PairChannel(task) \in DOMAIN channels
    /\ channels[PairChannel(task)].status = "paused"
    /\ microtasks = <<>>

----------------------------------------------------------------------------
(* C32 *)

(* Tasks addressed to nodes of two organizations, in both orders *)
TargetTasks ==
  { [taskId |-> <<"c">>, sourceNode |-> <<"o", "1", ":", "n", "1">>,
     targetNodes |-> << <<"o", "3", ":", "n", "3">>, <<"o", "2", ":", "n", "2">> >>],
    [taskId |-> <<"d">>, sourceNode |-> <<"o", "1", ":", "n", "1">>,
     targetNodes |-> << <<"o", "2", ":", "n", "2">>, <<"o", "3", ":", "n", "3">> >>] }

TargetChannelIds ==
  {ChannelId(<<"o", "1">>, target, "agent2agent") : target \in {<<"o", "2">>, <<"o", "3">>}}

(* The router with tasks that name two target organizations *)
TargetsNext ==
  \/ registerOrganization([orgId |-> <<"o", "1">>, name |-> "org"])
  \/ \E target \in {<<"o", "2">>, <<"o", "3">>} :
       createChannel(<<"o", "1">>, target, "agent2agent")
  \/ \E task \in TargetTasks : routeCall(task)
  \/ \E channelId \in TargetChannelIds : pauseChannel(channelId)
  \/ \E channelId \in TargetChannelIds : resumeChannel(channelId)
  \/ DrainStep
  \/ Deliver

TargetsSpec == Init /\ [][TargetsNext]_vars

(* The agent2agent channel from the task's source to its i-th target *)
TargetChannel(task, i) ==
  ChannelId(SourceOrg(task), SplitHead(task.targetNodes[i]), "agent2agent")

IsActive(chs, channelId) ==
  channelId \in DOMAIN chs /\ chs[channelId].status = "active"

(* The positions in targetNodes of the targets with an active channel *)
ActiveTargets(chs, task) ==
  {i \in 1..Len(task.targetNodes) : IsActive(chs, TargetChannel(task, i))}

(* C32: a route with a registered source and at least one target whose     *)
(* agent2agent channel is active emits task:routing with the channel of    *)
(* the first such target in targetNodes order, leaves the queue as it was  *)
(* and schedules one delivery with that channel; a scheduled delivery is   *)
(* kept as it is by every other step, and the delivery emits               *)
(* task:delivered with the channel it was scheduled with                   *)
C32_FirstActiveChannel ==
  [][/\ \A task \in TargetTasks :
          ( /\ op'[1] = "route" /\ op'[2] = task.taskId
            /\ HasOrganization(SourceOrg(task))
            /\ ActiveTargets(channels, task) # {} ) =>
            LET first == CHOOSE i \in ActiveTargets(channels, task) :
                           \A j \in ActiveTargets(channels, task) : i <= j
            IN  /\ emitted' = << <<"task:routing", task.taskId, TargetChannel(task, first)>> >>
                /\ messageQueue' = messageQueue
                /\ deliveries' = Append(deliveries,
                                        [task |-> task, channel |-> TargetChannel(task, first)])
     /\ IF op'[1] = "delivery"
          THEN /\ deliveries # <<>>
               /\ deliveries' = Tail(deliveries)
               /\ emitted' = << <<"task:delivered", Head(deliveries).task.taskId,
                                  Head(deliveries).channel>> >>
          ELSE /\ Len(deliveries') >= Len(deliveries)
               /\ SubSeq(deliveries', 1, Len(deliveries)) = deliveries
    ]_vars

(* A task whose first target's channel is paused has been routed with the  *)
(* channel of its second target, the channel was paused after that, and    *)
(* the delivery has been emitted with it                                   *)
C32_Witness ==
  \E task \in TargetTasks :
    /\ op = <<"delivery", task.taskId>>
    /\ emitted = << <<"task:delivered", task.taskId, TargetChannel(task, 2)>> >>
    /\ TargetChannel(task, 1) \in DOMAIN channels
    /\ channels[TargetChannel(task, 1)].status = "paused"
    /\ channels[TargetChannel(task, 2)].status = "paused"

----------------------------------------------------------------------------
(* C33 *)

Routing(task) ==
  \E i \in 1..Len(emitted) :
    emitted[i][1] = "task:routing" /\ emitted[i][2] = task.taskId

(* C33, as stated: every task:routing event is eventually followed by the  *)
(* task:delivered event of the same task                                   *)
C33_RoutingDelivers ==
  \A task \in RouterTasks : Routing(task) ~> Delivered(task)

(* Every delivery is that of the oldest scheduled callback, and a callback *)
(* is scheduled only by a step that emits task:routing for its task, and   *)
(* removed only by its delivery                                            *)
C33_DeliveredWasRouted ==
  [][IF op'[1] = "delivery"
       THEN /\ deliveries # <<>>
            /\ op'[2] = Head(deliveries).task.taskId
            /\ deliveries' = Tail(deliveries)
       ELSE /\ SubSeq(deliveries', 1, Len(deliveries)) = deliveries
            /\ \A i \in (Len(deliveries) + 1)..Len(deliveries') :
                 \E j \in 1..Len(emitted') :
                   emitted'[j] = <<"task:routing", deliveries'[i].task.taskId,
                                   deliveries'[i].channel>>]_vars

(* A delivery is scheduled while a queue drain is pending with a task in   *)
(* the queue that has no active channel                                    *)
C33_Witness ==
  \E task \in RouterTasks :
    /\ Scheduled(task)
    /\ microtasks # <<>>
    /\ \E i \in 1..Len(messageQueue) : ~HasA2A(channels, messageQueue[i], "active")

----------------------------------------------------------------------------
(* C34 *)

(* The router with direct submissions, broadcasts and queue drains *)
ConservationNext ==
  \/ \E orgId \in BroadcastOrgIds : registerOrganization([orgId |-> orgId, name |-> "org"])
  \/ \E orgId \in {<<"o", "2">>, <<"o", "3">>} :
       createChannel(<<"o", "1">>, orgId, "agent2agent")
  \/ \E channelId \in BroadcastChannelIds : pauseChannel(channelId)
  \/ \E channelId \in BroadcastChannelIds : resumeChannel(channelId)
  \/ \E task \in RouterTasks : routeCall(task)
  \/ \E task \in BroadcastTasks : broadcast(task)
  \/ BroadcastStep
  \/ DrainStep
  \/ Deliver

ConservationSpec == Init /\ [][ConservationNext]_vars

(* The tasks that can be handed to route: submitted or derived by broadcast *)
SubmittedTasks ==
  RouterTasks \cup {broadcastTask(task, orgId) : task \in BroadcastTasks,
                                                 orgId \in BroadcastOrgIds}

QueuedCount(queue, task) == Cardinality({i \in 1..Len(queue) : queue[i] = task})

RoutingCount(events, task) ==
  Cardinality({i \in 1..Len(events) :
                 events[i][1] = "task:routing" /\ events[i][2] = task.taskId})

(* The number of submissions of the task that the step accepts: a call of  *)
(* route that does not fail, or the route of a derived task by broadcast   *)
Accepted(task) ==
  IF op'[1] = "route" /\ op'[2] = task.taskId /\ op'[3] = "ok" THEN 1
  ELSE IF /\ op'[1] \in {"broadcast", "broadcast:next"}
          /\ op'[4] = "await"
          /\ \E original \in BroadcastTasks :
               /\ original.taskId = op'[2]
               /\ task = broadcastTask(original, op'[3][Len(op'[3])])
         THEN 1
  ELSE 0

(* C34: in every step, for every task, the number of its copies in the     *)
(* queue after the step plus the number of task:routing events the step    *)
(* emits for it equals the number of its copies in the queue before the    *)
(* step plus the number of its submissions the step accepts: no step of a  *)
(* drain, also with another drain pending, loses a task or routes a queued *)
(* task twice                                                              *)
C34_QueueConservation ==
  [][\A task \in SubmittedTasks :
       QueuedCount(messageQueue', task) + RoutingCount(emitted', task)
         = QueuedCount(messageQueue, task) + Accepted(task)]_vars

(* A continuation of one drain has just routed a queued task while the     *)
(* continuation of another drain is pending and a task is still queued     *)
C34_Witness ==
  /\ op[1] = "processQueue"
  /\ \E task \in SubmittedTasks : RoutingCount(emitted, task) = 1
  /\ \E i \in 1..Len(microtasks) :
       microtasks[i][1] = "processQueue" /\ microtasks[i] # op
  /\ messageQueue # <<>>

----------------------------------------------------------------------------
(* C35 *)

TwoTaskIds == {"t1", "t2"}

(* The targets that name n1, alone and with n10 *)
AssignmentTargets ==
  { <<Composite(<<"o", "1">>, <<"n", "1">>)>>,
    <<Composite(<<"o", "1">>, <<"n", "1">>), Composite(<<"o", "1">>, <<"n", "1", "0">>)>> }

(* The coordinator with two task identifiers *)
AssignmentNext ==
  \/ \E nodeId \in NodeIds : registerNode(nodeId, OrgOf(nodeId), "online", now)
  \/ \E taskId \in TwoTaskIds, targetNodes \in AssignmentTargets :
       createTask(taskId, targetNodes)
  \/ AssignNext
  \/ \E timer \in 1..MaxTimers : IntervalFire(timer)
  \/ TimeoutFire
  \/ Tick

AssignmentSpec == Init /\ [][AssignmentNext]_vars

(* The tasks other than taskId whose scheduled completion on the node has  *)
(* not fired                                                               *)
OthersInFlight(pending, taskId, nodeId) ==
  {pending[i].taskId : i \in {j \in 1..Len(pending) :
                                pending[j].nodeId = nodeId /\ pending[j].taskId # taskId}}

(* C35, as stated: a scheduled completion that fires never sets the node   *)
(* to online while a different task assigned to the node is in flight      *)
C35_OneAssignmentInFlight ==
  [][\A taskId \in TwoTaskIds, nodeId \in NodeIds :
       ( /\ TimeoutFire
         /\ op'[2] = taskId /\ op'[3] = nodeId
         /\ OthersInFlight(timeouts', taskId, nodeId) # {} ) =>
         StatusIn(nodes', nodeId) # "online"]_vars

(* The completions of two different tasks are scheduled on one node *)
C35_Witness ==
  \E nodeId \in NodeIds :
    /\ Len(timeouts) = 2
    /\ timeouts[1].nodeId = nodeId
    /\ timeouts[2].nodeId = nodeId
    /\ timeouts[1].taskId # timeouts[2].taskId

----------------------------------------------------------------------------
(* C36 *)

(* C36: a scheduled completion that fires when its node is not registered, *)
(* and a call of completeTask with a taskId or a nodeId that is not        *)
(* registered, leave every task and every node as they were and emit       *)
(* nothing                                                                 *)
C36_CompletionWithoutNode ==
  [][\A taskId \in TaskIds, nodeId \in NodeIds :
       ( /\ \/ op' = <<"completion", taskId, nodeId, "absent">>
            \/ op' = <<"completeTask", taskId, nodeId>>
         /\ \/ taskId \notin DOMAIN tasks
            \/ \A i \in 1..Len(nodes) : nodes[i].nodeId # nodeId ) =>
         /\ tasks' = tasks
         /\ nodes' = nodes
         /\ emitted' = <<>>]_vars

(* The completion of a pending task has fired after its node had been      *)
(* unregistered while another node is registered: the task is still pending *)
C36_Witness ==
  /\ op[1] = "completion"
  /\ op[4] = "absent"
  /\ StatusInTasks(tasks, op[2]) = "pending"
  /\ nodes # <<>>
  /\ emitted = <<>>

----------------------------------------------------------------------------
(* C37 *)

(* The nodes that the createTask step assigns or has still to assign *)
AssignedBy(taskId) ==
  {emitted'[i][3] : i \in {j \in 1..Len(emitted') :
                             emitted'[j][1] = "task:assigned" /\ emitted'[j][2] = taskId}}
    \cup UNION {{c.rest[i].nodeId : i \in 1..Len(c.rest)} :
                  c \in {d \in Range(assigning') : d.taskId = taskId}}

(* C37, as stated: a registered online node whose composite key            *)
(* orgId:nodeId is one of the targets is among the nodes createTask        *)
(* assigns                                                                 *)
C37_NamedNodeAssigned ==
  [][\A taskId \in TaskIds, targetNodes \in TargetLists :
       createTask(taskId, targetNodes) =>
         \A node \in Range(nodes) :
           ( /\ node.status = "online"
             /\ Composite(node.orgId, node.nodeId) \in Range(targetNodes) ) =>
             node.nodeId \in AssignedBy(taskId)]_vars

(* createTask has just assigned n1 alone while n10 is online *)
C37_Witness ==
  /\ op[1] = "createTask"
  /\ Emitted(<<"task:assigned", op[2], <<"n", "1">>>>)
  /\ assigning = <<>>
  /\ StatusIn(nodes, <<"n", "1", "0">>) = "online"
  /\ ~PendingCompletion(op[2], <<"n", "1", "0">>)

----------------------------------------------------------------------------
(* C38 *)

(* C38: createChannel, pauseChannel and registerOrganization leave the     *)
(* queue, the scheduled deliveries and the pending drains as they were;    *)
(* the queue changes only by a route that appends to it, by a              *)
(* resumeChannel of an existing channel or by a continuation of the drain  *)
(* such a call has started                                                 *)
C38_QueueFrame ==
  [][/\ op'[1] \in {"createChannel", "pauseChannel", "registerOrganization"} =>
          UNCHANGED <<messageQueue, deliveries, microtasks>>
     /\ messageQueue' # messageQueue =>
          \/ /\ op'[1] = "route"
             /\ Len(messageQueue') = Len(messageQueue) + 1
             /\ SubSeq(messageQueue', 1, Len(messageQueue)) = messageQueue
          \/ op'[1] = "resumeChannel" /\ op'[2] \in DOMAIN channels
          \/ op'[1] = "processQueue"
    ]_vars

(* The agent2agent channel of a queued task has just been created: the     *)
(* task is still in the queue, behind another, and no drain is pending     *)
C38_Witness ==
  \E task \in RouterTasks :
    /\ op[1] = "createChannel"
    /\ op[2] = PairChannel(task)
    /\ op[3] = "absent"
    /\ Len(messageQueue) = 2
    /\ messageQueue[2] = task
    /\ microtasks = <<>>
    /\ deliveries = <<>>

----------------------------------------------------------------------------
(* C39 *)

SessionSpec == Init /\ [][SessionNext]_vars

(* The sessionIds for which an interval timer of the runtime is active *)
Synced == {syncs[timer].sessionId : timer \in DOMAIN syncs}

(* C39: the sessionIds with an active sync timer are the stored sessions,  *)
(* each with one active timer, the one recorded in syncTimers; activeSyncs *)
(* of getStats equals totalSessions                                        *)
C39_TimersMatchSessions ==
  /\ Synced = DOMAIN sessions
  /\ DOMAIN syncTimers = DOMAIN sessions
  /\ \A sessionId \in DOMAIN sessions :
       {timer \in DOMAIN syncs : syncs[timer].sessionId = sessionId}
         = {syncTimers[sessionId]}
  /\ SessionStatsOf(sessions, syncTimers).activeSyncs
       = SessionStatsOf(sessions, syncTimers).totalSessions

(* A session has been created again after a sync and a handoff, and        *)
(* another session has been removed by cleanup or terminateSession         *)
C39_Witness ==
  /\ op = <<"createSession", <<"s", "1">>>>
  /\ now > 0
  /\ nextSync > 3
  /\ DOMAIN sessions = {<<"s", "1">>}
  /\ syncTimers[<<"s", "1">>] = nextSync - 1

----------------------------------------------------------------------------
(* C40 *)

(* C40, as stated: queryByConversation(c) returns the stored fragments     *)
(* whose conversationId is c, each once, and no other fragment             *)
C40_QueryExact ==
  \A c \in ConversationIds :
    op = <<"queryByConversation", c>> =>
      /\ {returned[i] : i \in 1..Len(returned)}
           = {fragments[id] : id \in {k \in DOMAIN fragments :
                                        fragments[k].conversationId = c}}
      /\ \A i, j \in 1..Len(returned) : i # j => returned[i].id # returned[j].id

(* The query of a conversation has returned a fragment that was stored     *)
(* again under the other conversation                                      *)
C40_Witness ==
  /\ op = <<"queryByConversation", "c1">>
  /\ \E i \in 1..Len(returned) : returned[i].conversationId = "c2"

====
